---- MODULE Spec2Model ----
(***************************************************************************)
(* Spine viewer: the asset-resolution engine (name-set collector, atlas    *)
(* builders, gap-filler) and the load orchestrator of useSpineLoad.        *)
(*                                                                         *)
(* Strings are sequences of one-character strings, so that concatenation,  *)
(* padStart, trailing-digit stripping and suffix tests are computed.       *)
(* A JavaScript Set is a duplicate-free sequence in insertion order.       *)
(***************************************************************************)
EXTENDS Integers, Sequences, FiniteSets, TLC

VARIABLES
    \* name-set collector and gap-filler (lib/atlas)
    skeleton,      \* the parsed skeleton JSON handed to the name-set collector
    atlas,         \* the TextureAtlas under construction
    namesPc,       \* position in: built -> gap-filled -> parsed
    parseResult,   \* outcome of readSkeletonData: "none", "ok", "regionNotFound"
    \* one call of a function of the loader taken alone
    call,          \* [fn, ...]: the function and its arguments; NoCall when none
    result,        \* <<>> until the call has returned, then <<value>>
    \* App.tsx state (the latest values handed to the state setters)
    folders,             \* the file system: folder path k holds folders[k]
    folderPath,          \* 0 (null) or the path of the open folder
    initialSkeletonJson, \* 0 (null) or a .json file's basename (its position)
    skeletonFiles,       \* [src, files]: the File dropdown's options
    animations,          \* the Animation dropdown's options
    skins,               \* the Skin dropdown's options
    metaSource,          \* [folder, stale]: which load delivered animations/skins
    selectedAnimation,   \* "" or a name
    selectedSkin,        \* "" or a name
    \* React: what has been rendered and committed
    viewer,              \* [inst, key, deps] of the mounted SpineViewer; inst 0 = none
    \* useSpineLoad state of the mounted instance
    loadIdRef,
    appRef,              \* 0 (null) or the load whose Application it holds
    spineRef,            \* 0 (null) or the load whose Spine it holds
    skeletonDataRef,     \* 0 (null) or the load whose SkeletonData it holds
    currentAnimationRef, \* "" (null) or a name
    isLoading,
    error,               \* "" (null) or a message
    canvases,            \* the loads whose canvas is a child of the container
    raf,                 \* the scheduled loadFromFolder closures, by their deps
    loads,               \* every loadFromFolder call started so far
    \* the user
    userSelection,       \* [kind, name]: the last dropdown pick since the folder opened
    inputsLeft,          \* how many more inputs the user makes
    \* the main process and the renderer's open-with wiring
    pendingOpenPath,     \* 0 (null) or a path
    mainWindow,          \* 0 (null) or the window, by its number
    renderer,            \* "none", "loading", or "mounted" once App's effect has run
    toMain,              \* invocations of get-pending-open-path not yet handled
    toRenderer,          \* messages and replies on their way to the renderer
    mainLog              \* what has happened so far, in order

mainVars == <<pendingOpenPath, mainWindow, renderer, toMain, toRenderer, mainLog>>

namesVars == <<skeleton, atlas, namesPc, parseResult, call, result, mainVars>>

appVars ==
    <<folders, folderPath, initialSkeletonJson, skeletonFiles, animations, skins,
      metaSource, selectedAnimation, selectedSkin>>

hookVars ==
    <<viewer, loadIdRef, appRef, spineRef, skeletonDataRef, currentAnimationRef,
      isLoading, error, canvases, raf, loads>>

userVars == <<userSelection, inputsLeft>>

vars == <<namesVars, appVars, hookVars, userVars>>

(***************************************************************************)
(* Strings                                                                 *)
(***************************************************************************)

Digits == <<"0", "1", "2", "3", "4", "5", "6", "7", "8", "9">>

IsDigit(c) == \E k \in 1..10 : Digits[k] = c

Range(s) == {s[i] : i \in 1..Len(s)}

\* String(n) for a natural number n
RECURSIVE NatToString(_)
NatToString(n) ==
    IF n < 10 THEN <<Digits[n + 1]>>
    ELSE NatToString(n \div 10) \o <<Digits[(n % 10) + 1]>>

\* s.padStart(width, '0'): never truncates
RECURSIVE PadStart(_, _)
PadStart(s, width) ==
    IF Len(s) >= width THEN s ELSE PadStart(<<"0">> \o s, width)

\* s.replace(/\d+$/, '')
RECURSIVE StripTrailingDigits(_)
StripTrailingDigits(s) ==
    IF Len(s) > 0 /\ IsDigit(s[Len(s)])
    THEN StripTrailingDigits(SubSeq(s, 1, Len(s) - 1))
    ELSE s

Slash == <<"/">>

NoCall == [fn |-> "none"]

\* s.toLowerCase(), for the letters file names are made of here
UpperLetters == <<"A", "B", "G", "J", "N", "O", "P", "S", "W", "X">>

LowerLetters == <<"a", "b", "g", "j", "n", "o", "p", "s", "w", "x">>

LowerChar(c) ==
    IF \E k \in 1..Len(UpperLetters) : UpperLetters[k] = c
    THEN LowerLetters[CHOOSE k \in 1..Len(UpperLetters) : UpperLetters[k] = c]
    ELSE c

ToLowerCase(s) == [i \in 1..Len(s) |-> LowerChar(s[i])]

\* s.endsWith(t)
EndsWith(s, t) == Len(t) <= Len(s) /\ SubSeq(s, Len(s) - Len(t) + 1, Len(s)) = t

\* the position of the last '.' of s, 0 when it has none
LastDot(s) ==
    IF \E i \in 1..Len(s) : s[i] = "."
    THEN CHOOSE i \in 1..Len(s) : s[i] = "." /\ \A j \in (i + 1)..Len(s) : s[j] # "."
    ELSE 0

DefaultSkinName == <<"d", "e", "f", "a", "u", "l", "t">>

\* Set.add on an insertion-ordered set
SetAdd(s, x) == IF x \in Range(s) THEN s ELSE Append(s, x)

RECURSIVE SetAddAll(_, _)
SetAddAll(s, xs) ==
    IF xs = <<>> THEN s ELSE SetAddAll(SetAdd(s, Head(xs)), Tail(xs))

(***************************************************************************)
(* Name-set collector (collectSkeletonRegionNames)                         *)
(*                                                                         *)
(* skeleton = [skins |-> sequence of skin]                                 *)
(* skin     = [name |-> string ("" when absent),                           *)
(*             attachments |-> sequence of entry, slots flattened]         *)
(* entry    = [key, path, name |-> strings ("" when absent or empty),      *)
(*             sequence |-> <<>> (absent) or <<seq>>]                      *)
(* seq      = [count, digits, start |-> <<>> (not a number) or <<n>>]      *)
(***************************************************************************)

DefaultDigits == 4

DefaultStart == 0

SeqDigits(seq) == IF Len(seq.digits) = 1 THEN seq.digits[1] ELSE DefaultDigits

SeqStart(seq) == IF Len(seq.start) = 1 THEN seq.start[1] ELSE DefaultStart

\* mutant: the frame index is padded to the default width, ignoring seq.digits
FrameSuffix_DefaultWidth(seq, i) ==
    PadStart(NatToString(SeqStart(seq) + i), DefaultDigits)

\* String(start + i).padStart(digits, '0')
FrameSuffix(seq, i) == PadStart(NatToString(SeqStart(seq) + i), SeqDigits(seq))

SequenceBase(key) == StripTrailingDigits(key)

\* the frame names of one attachment, in loop order (i = 0 .. count-1)
SequenceFrameNames(att) ==
    IF Len(att.sequence) = 1 /\ Len(att.sequence[1].count) = 1
    THEN [i \in 1..att.sequence[1].count[1] |->
             SequenceBase(att.key) \o FrameSuffix(att.sequence[1], i - 1)]
    ELSE <<>>

\* mutant: the declared name of an attachment is not added
AttachmentAdds_NoName(att) ==
    <<att.key>>
    \o (IF att.path # <<>> THEN <<att.path>> ELSE <<>>)
    \o SequenceFrameNames(att)

\* the names handed to add(), in call order
AttachmentAdds(att) ==
    <<att.key>>
    \o (IF att.path # <<>> THEN <<att.path>> ELSE <<>>)
    \o (IF att.name # <<>> THEN <<att.name>> ELSE <<>>)
    \o SequenceFrameNames(att)

SkinNameOf(skin) == IF skin.name # <<>> THEN skin.name ELSE DefaultSkinName

\* add(n): names.add(n); names.add(skinName + '/' + n)
AddName(names, skinName, n) == SetAdd(SetAdd(names, n), skinName \o Slash \o n)

RECURSIVE AddNames(_, _, _)
AddNames(names, skinName, ns) ==
    IF ns = <<>> THEN names
    ELSE AddNames(AddName(names, skinName, Head(ns)), skinName, Tail(ns))

RECURSIVE CollectAttachments(_, _, _)
CollectAttachments(names, skinName, atts) ==
    IF atts = <<>> THEN names
    ELSE CollectAttachments(AddNames(names, skinName, AttachmentAdds(Head(atts))),
                            skinName, Tail(atts))

RECURSIVE CollectSkins(_, _)
CollectSkins(names, skinList) ==
    IF skinList = <<>> THEN names
    ELSE CollectSkins(CollectAttachments(names, SkinNameOf(Head(skinList)),
                                         Head(skinList).attachments),
                      Tail(skinList))

collectSkeletonRegionNames(sk) == CollectSkins(<<>>, sk.skins)

(***************************************************************************)
(* Atlas: pages and regions.  A UV coordinate is a fraction <<num, den>>.  *)
(***************************************************************************)

EmptyAtlas == [pages |-> <<>>, regions |-> <<>>]

RegionNames(a) == {a.regions[i].name : i \in 1..Len(a.regions)}

PlaceholderSize == 16

PlaceholderPageName == <<"p", "l", "a", "c", "e", "h", "o", "l", "d", "e", "r">>

PlaceholderRegion(pageIndex, name) ==
    [name |-> name, page |-> pageIndex, x |-> 0, y |-> 0,
     width |-> PlaceholderSize, height |-> PlaceholderSize,
     originalWidth |-> PlaceholderSize, originalHeight |-> PlaceholderSize,
     degrees |-> 0,
     u |-> <<0, 1>>, v |-> <<0, 1>>, u2 |-> <<1, 1>>, v2 |-> <<1, 1>>]

\* mutant: the filter loses the last wanted name
FilterMissing_DropLast(wanted, existing) ==
    LET RECURSIVE F(_)
        F(w) == IF Len(w) <= 1 THEN <<>>
                ELSE (IF Head(w) \in existing THEN <<>> ELSE <<Head(w)>>) \o F(Tail(w))
    IN  F(wanted)

\* [...wanted].filter((n) => !existing.has(n))
RECURSIVE FilterMissing(_, _)
FilterMissing(wanted, existing) ==
    IF wanted = <<>> THEN <<>>
    ELSE (IF Head(wanted) \in existing THEN <<>> ELSE <<Head(wanted)>>)
         \o FilterMissing(Tail(wanted), existing)

\* mutant: every required name counts as missing
MissingNames_All(a, sk) == collectSkeletonRegionNames(sk)

\* lines 112-115
MissingNames(a, sk) == FilterMissing(collectSkeletonRegionNames(sk), RegionNames(a))

\* the atlas once the promise of addPlaceholderRegionsForMissing has resolved
\* mutant: the placeholder page is appended even when no name is missing
addPlaceholderRegionsForMissing_Always(a, sk) ==
    [pages |-> Append(a.pages,
                      [name |-> PlaceholderPageName,
                       width |-> PlaceholderSize, height |-> PlaceholderSize]),
     regions |-> a.regions
                 \o [i \in 1..Len(MissingNames(a, sk)) |->
                        PlaceholderRegion(Len(a.pages) + 1, MissingNames(a, sk)[i])]]

addPlaceholderRegionsForMissing(a, sk) ==
    LET missing == MissingNames(a, sk)
        pageIndex == Len(a.pages) + 1
    IN  IF missing = <<>> THEN a
        ELSE [pages |-> Append(a.pages,
                  [name |-> PlaceholderPageName,
                   width |-> PlaceholderSize, height |-> PlaceholderSize]),
              regions |-> a.regions
                  \o [i \in 1..Len(missing) |-> PlaceholderRegion(pageIndex, missing[i])]]

(***************************************************************************)
(* Synthetic builder (createSyntheticAtlas).  pixiTextures is a Map: a     *)
(* sequence, in insertion order, of [path, width, height] with distinct    *)
(* paths.                                                                  *)
(***************************************************************************)

ImageExtensions ==
    {<<".", "p", "n", "g">>, <<".", "j", "p", "g">>, <<".", "j", "p", "e", "g">>,
     <<".", "w", "e", "b", "p">>}

\* s.replace(/\.(png|jpg|jpeg|webp)$/i, '')
StripImageExtension(s) ==
    IF \E e \in ImageExtensions : EndsWith(ToLowerCase(s), e)
    THEN SubSeq(s, 1, Len(s) - Len(CHOOSE e \in ImageExtensions :
                                       EndsWith(ToLowerCase(s), e)))
    ELSE s

\* s.split(/[/\\]/).pop()
LastSegment(s) ==
    IF \E i \in 1..Len(s) : s[i] \in {"/", "\\"}
    THEN SubSeq(s, (CHOOSE i \in 1..Len(s) :
                       /\ s[i] \in {"/", "\\"}
                       /\ \A j \in (i + 1)..Len(s) : s[j] \notin {"/", "\\"}) + 1,
                Len(s))
    ELSE s

\* texturePath.split(/[/\\]/).pop() || texturePath
FileNameOf(texturePath) ==
    IF LastSegment(texturePath) = <<>> THEN texturePath ELSE LastSegment(texturePath)

SyntheticPrefixes ==
    <<(<<"T", "e", "x", "t", "u", "r", "e", "s", "/">>),
      (<<"t", "e", "x", "t", "u", "r", "e", "s", "/">>),
      (<<"i", "m", "a", "g", "e", "s", "/">>),
      (<<"I", "m", "a", "g", "e", "s", "/">>),
      (<<>>)>>

\* the condition of lines 215-222
NameMatchesImage(name, fileNameWithoutExt, pathWithoutExt) ==
    \/ name = fileNameWithoutExt
    \/ name = pathWithoutExt
    \/ LastSegment(name) = fileNameWithoutExt
    \/ EndsWith(name, Slash \o fileNameWithoutExt)
    \/ EndsWith(name, <<"\\">> \o fileNameWithoutExt)
    \/ EndsWith(name, <<"_">> \o fileNameWithoutExt)

\* mutant: no skeleton name is added to regionNames
MatchingNames_None(wanted, fileNameWithoutExt, pathWithoutExt) == <<>>

\* the names of skeletonRegionNames that pass lines 215-222, in order
RECURSIVE MatchingNames(_, _, _)
MatchingNames(wanted, fileNameWithoutExt, pathWithoutExt) ==
    IF wanted = <<>> THEN <<>>
    ELSE (IF NameMatchesImage(Head(wanted), fileNameWithoutExt, pathWithoutExt)
          THEN <<Head(wanted)>> ELSE <<>>)
         \o MatchingNames(Tail(wanted), fileNameWithoutExt, pathWithoutExt)

\* regionNames of one texture (lines 193-225), in insertion order
CandidateRegionNames(texturePath, wanted) ==
    LET pathWithoutExt == StripImageExtension(texturePath)
        fileNameWithoutExt == StripImageExtension(FileNameOf(texturePath))
    IN  SetAddAll(<<>>,
            <<pathWithoutExt, fileNameWithoutExt,
              ToLowerCase(pathWithoutExt), ToLowerCase(fileNameWithoutExt)>>
            \o [k \in 1..(2 * Len(SyntheticPrefixes)) |->
                   IF k % 2 = 1
                   THEN SyntheticPrefixes[(k + 1) \div 2] \o fileNameWithoutExt
                   ELSE SyntheticPrefixes[k \div 2] \o pathWithoutExt]
            \o MatchingNames(wanted, fileNameWithoutExt, pathWithoutExt))

\* createRegion (lines 165-189)
SyntheticRegion(pageIndex, regionName, tex) ==
    [name |-> regionName, page |-> pageIndex, x |-> 0, y |-> 0,
     width |-> tex.width, height |-> tex.height,
     originalWidth |-> tex.width, originalHeight |-> tex.height,
     degrees |-> 0,
     u |-> <<0, 1>>, v |-> <<0, 1>>, u2 |-> <<1, 1>>, v2 |-> <<1, 1>>]

\* mutant: a name is given a region by every image that can supply it
NotYetCreated_All(names, created) == names

\* the names of lines 226-231 for which createRegion is called
NotYetCreated(names, created) == FilterMissing(names, created)

\* one iteration of the loop of line 191
AddSyntheticPage(a, tex, wanted) ==
    LET fresh == NotYetCreated(CandidateRegionNames(tex.path, wanted), RegionNames(a))
        pageIndex == Len(a.pages) + 1
    IN  [pages |-> Append(a.pages,
                          [name |-> tex.path, width |-> tex.width, height |-> tex.height]),
         regions |-> a.regions
                     \o [k \in 1..Len(fresh) |-> SyntheticRegion(pageIndex, fresh[k], tex)]]

RECURSIVE AddSyntheticPages(_, _, _)
AddSyntheticPages(a, textures, wanted) ==
    IF textures = <<>> THEN a
    ELSE AddSyntheticPages(AddSyntheticPage(a, Head(textures), wanted),
                           Tail(textures), wanted)

createSyntheticAtlas(textures, sk) ==
    AddSyntheticPages(EmptyAtlas, textures, collectSkeletonRegionNames(sk))

\* Map.prototype.set on a map kept as a sequence of entries in insertion
\* order: an existing key keeps its position and takes the new value
MapSet(m, entry) ==
    IF \E i \in 1..Len(m) : m[i].path = entry.path
    THEN [i \in 1..Len(m) |-> IF m[i].path = entry.path THEN entry ELSE m[i]]
    ELSE Append(m, entry)

\* one iteration of the loop of useSpineLoad.ts lines 242-249: the decoded
\* image is registered under relPath and, when they differ, under its file name
RegisterLooseImage(m, tex) ==
    IF FileNameOf(tex.path) # tex.path
    THEN MapSet(MapSet(m, tex), [tex EXCEPT !.path = FileNameOf(tex.path)])
    ELSE MapSet(m, tex)

\* pixiTextures after the loop of lines 242-249 over texturePaths
RECURSIVE RegisterLooseImages(_, _)
RegisterLooseImages(m, texs) ==
    IF texs = <<>> THEN m
    ELSE RegisterLooseImages(RegisterLooseImage(m, Head(texs)), Tail(texs))

(***************************************************************************)
(* collectSkeletonRegionNames on any parsed JSON (path.ts lines 21-54).    *)
(* skeleton.skins is <<"absent">>, <<"object">> (a plain object, as Spine   *)
(* 3.7 and older write it) or <<"array", skins>>; a skin is [kind |->       *)
(* "null"] or [kind |-> "object", name, slots] with slots <<"absent">> or   *)
(* <<"object", slots>>; a slot is [kind, entries] with kind "null",         *)
(* "number" or "object"; an entry is [kind, key, path, name, sequence]      *)
(* with kind "null", "number" or "object".  The outcome is [threw, names]:  *)
(* reading a property of null and iterating a plain object with for-of      *)
(* throw a TypeError.                                                       *)
(***************************************************************************)

TypeErrorThrown == [threw |-> TRUE, names |-> <<>>]

\* att.path, att.name, att.sequence of a number are undefined
AsAttachment(entry) ==
    IF entry.kind = "object"
    THEN [key |-> entry.key, path |-> entry.path, name |-> entry.name,
          sequence |-> entry.sequence]
    ELSE [key |-> entry.key, path |-> <<>>, name |-> <<>>, sequence |-> <<>>]

\* the loop of line 31 over one slot: att.path of a null att throws (line 38)
RECURSIVE CollectEntries(_, _, _)
CollectEntries(acc, skinName, entries) ==
    IF acc.threw \/ entries = <<>> THEN acc
    ELSE IF Head(entries).kind = "null" THEN TypeErrorThrown
    ELSE CollectEntries(
             [acc EXCEPT !.names = AddNames(@, skinName,
                                            AttachmentAdds(AsAttachment(Head(entries))))],
             skinName, Tail(entries))

\* the loop of line 30: for-in over null or a number has no iteration
RECURSIVE CollectSlots(_, _, _)
CollectSlots(acc, skinName, slots) ==
    IF acc.threw \/ slots = <<>> THEN acc
    ELSE CollectSlots(IF Head(slots).kind = "object"
                      THEN CollectEntries(acc, skinName, Head(slots).entries)
                      ELSE acc,
                      skinName, Tail(slots))

\* the loop of line 26: skin.name of a null skin throws (line 27)
RECURSIVE CollectSkinValues(_, _)
CollectSkinValues(acc, skinValues) ==
    IF acc.threw \/ skinValues = <<>> THEN acc
    ELSE IF Head(skinValues).kind = "null" THEN TypeErrorThrown
    ELSE CollectSkinValues(
             IF Head(skinValues).slots[1] = "absent" THEN acc
             ELSE CollectSlots(acc, SkinNameOf(Head(skinValues)),
                               Head(skinValues).slots[2]),
             Tail(skinValues))

\* lines 22-53
CollectFromJson(json) ==
    IF json.skins[1] = "absent" THEN [threw |-> FALSE, names |-> <<>>]
    ELSE IF json.skins[1] = "object" THEN TypeErrorThrown
    ELSE CollectSkinValues([threw |-> FALSE, names |-> <<>>], json.skins[2])

(***************************************************************************)
(* Folder classification on file names (useSpineLoad.ts lines 101-149).    *)
(* A listed file is [path, content]; content says what reading it gives:   *)
(*   "skeleton"    JSON text with the "skeleton" and the "bones" marker    *)
(*   "packed"      JSON text of an object with frames and meta             *)
(*   "other"       JSON text with neither                                  *)
(*   "unreadable"  api.readFile rejects                                    *)
(***************************************************************************)

\* s.includes(t)
Includes(s, t) ==
    \E i \in 1..(Len(s) - Len(t) + 1) : SubSeq(s, i, i + Len(t) - 1) = t

DotJson == <<".", "j", "s", "o", "n">>

PackageWord == <<"p", "a", "c", "k", "a", "g", "e">>

\* !(!low.endsWith('.json') || low.includes('package'))  (lines 111, 137)
IsScannedJson(path) ==
    /\ EndsWith(ToLowerCase(path), DotJson)
    /\ ~Includes(ToLowerCase(path), PackageWord)

\* skeletonPaths after the loop of lines 108-116
RECURSIVE ScanSkeletonPaths(_)
ScanSkeletonPaths(allFiles) ==
    IF allFiles = <<>> THEN <<>>
    ELSE (IF IsScannedJson(Head(allFiles).path) /\ Head(allFiles).content = "skeleton"
          THEN <<Head(allFiles).path>> ELSE <<>>)
         \o ScanSkeletonPaths(Tail(allFiles))

\* s.trim(), for blanks
RECURSIVE Trim(_)
Trim(s) ==
    IF s # <<>> /\ Head(s) = " " THEN Trim(Tail(s))
    ELSE IF s # <<>> /\ s[Len(s)] = " " THEN Trim(SubSeq(s, 1, Len(s) - 1))
    ELSE s

\* mutant: the preferred name is compared as it is written
PreferredName_Raw(initialJson) == initialJson

\* initialSkeletonJson?.trim()?.toLowerCase()  (line 119)
PreferredName(initialJson) == ToLowerCase(Trim(initialJson))

\* lines 120-124: the found candidate, else skeletonPaths[0]
ChooseSkeleton(skeletonPaths, initialJson) ==
    LET preferred == PreferredName(initialJson)
        hits == {i \in 1..Len(skeletonPaths) :
                    ToLowerCase(LastSegment(skeletonPaths[i])) = preferred}
    IN  IF preferred # <<>> /\ hits # {}
        THEN skeletonPaths[CHOOSE i \in hits : \A j \in hits : i <= j]
        ELSE skeletonPaths[1]

\* s.replace(/\.json$/i, '')
StripJson(s) ==
    IF EndsWith(ToLowerCase(s), DotJson) THEN SubSeq(s, 1, Len(s) - Len(DotJson)) ELSE s

\* skeletonBaseLower (lines 128-129)
SkeletonBaseLower(jsonPath) == ToLowerCase(LastSegment(StripJson(jsonPath)))

\* matchesSkeleton (lines 141-142)
StemMatches(path, skeletonBaseLower) ==
    LET nameLower == ToLowerCase(StripJson(LastSegment(path)))
    IN  \/ nameLower = skeletonBaseLower
        \/ nameLower = <<"a", "t", "l", "a", "s", "-">> \o skeletonBaseLower

\* packedAtlasPath after the loop of lines 132-149 (<<>> for null)
RECURSIVE ScanPackedPath(_, _, _)
ScanPackedPath(allFiles, skeletonBaseLower, packedAtlasPath) ==
    IF allFiles = <<>> THEN packedAtlasPath
    ELSE ScanPackedPath(Tail(allFiles), skeletonBaseLower,
             IF /\ IsScannedJson(Head(allFiles).path)
                /\ Head(allFiles).content = "packed"
                /\ \/ packedAtlasPath = <<>>
                   \/ StemMatches(Head(allFiles).path, skeletonBaseLower)
             THEN <<Head(allFiles).path>>
             ELSE packedAtlasPath)

\* lines 101-149: "failed" is the throw of line 117
ClassifyFolder(allFiles, initialJson) ==
    LET skeletonPaths == ScanSkeletonPaths(allFiles)
    IN  IF skeletonPaths = <<>>
        THEN [outcome |-> "failed", skeletonPaths |-> <<>>, jsonPath |-> <<>>,
              packedAtlasPath |-> <<>>]
        ELSE [outcome |-> "classified", skeletonPaths |-> skeletonPaths,
              jsonPath |-> ChooseSkeleton(skeletonPaths, initialJson),
              packedAtlasPath |->
                  ScanPackedPath(allFiles,
                      SkeletonBaseLower(ChooseSkeleton(skeletonPaths, initialJson)),
                      <<>>)]

(***************************************************************************)
(* Packed builder (createAtlasFromPackedJson, addPackedPageToAtlas).  A    *)
(* packed JSON is [image, size, frames]: meta.image, meta.size (<<>> when  *)
(* absent, else <<[w, h]>>) and the entries of frames in key order, each   *)
(* [name, x, y, w, h, rotated].  A quotient a / b is kept as <<a, b>>: JS  *)
(* division yields Infinity or NaN when b = 0.                             *)
(***************************************************************************)

\* mutant: the rotated flag is ignored
PackedRegion_Unrotated(pageIndex, entry, pageWidth, pageHeight) ==
    [name |-> entry.name, page |-> pageIndex,
     x |-> entry.x, y |-> entry.y, width |-> entry.w, height |-> entry.h,
     originalWidth |-> entry.w, originalHeight |-> entry.h,
     offsetX |-> 0, offsetY |-> 0, degrees |-> 0,
     u |-> <<entry.x, pageWidth>>, v |-> <<entry.y, pageHeight>>,
     u2 |-> <<entry.x + entry.w, pageWidth>>, v2 |-> <<entry.y + entry.h, pageHeight>>]

\* the body of the loop of path.ts lines 83-107
PackedRegion(pageIndex, entry, pageWidth, pageHeight) ==
    [name |-> entry.name, page |-> pageIndex,
     x |-> entry.x, y |-> entry.y, width |-> entry.w, height |-> entry.h,
     originalWidth |-> entry.w, originalHeight |-> entry.h,
     offsetX |-> 0, offsetY |-> 0,
     degrees |-> IF entry.rotated THEN 90 ELSE 0,
     u |-> <<entry.x, pageWidth>>, v |-> <<entry.y, pageHeight>>,
     u2 |-> <<entry.x + entry.w, pageWidth>>, v2 |-> <<entry.y + entry.h, pageHeight>>]

addPackedPageToAtlas(a, packedJson, pageWidth, pageHeight) ==
    [pages |-> Append(a.pages, [name |-> packedJson.image,
                                width |-> pageWidth, height |-> pageHeight]),
     regions |-> a.regions
                 \o [k \in 1..Len(packedJson.frames) |->
                        PackedRegion(Len(a.pages) + 1, packedJson.frames[k],
                                     pageWidth, pageHeight)]]

createAtlasFromPackedJson(packedJson, pageWidth, pageHeight) ==
    addPackedPageToAtlas(EmptyAtlas, packedJson, pageWidth, pageHeight)

\* meta.size ?? { w: tex.width, h: tex.height }  (useSpineLoad.ts lines 190, 222)
MetaSizeOr(packedJson, tex) ==
    IF packedJson.size = <<>> THEN [w |-> tex.width, h |-> tex.height]
    ELSE packedJson.size[1]

\* a || b on numbers
OrElse(a, b) == IF a # 0 THEN a ELSE b

\* useSpineLoad.ts line 284, over relatedPacks
RECURSIVE AddRelatedPages(_, _)
AddRelatedPages(a, relatedPacks) ==
    IF relatedPacks = <<>> THEN a
    ELSE AddRelatedPages(
             addPackedPageToAtlas(a, Head(relatedPacks).json,
                 MetaSizeOr(Head(relatedPacks).json, Head(relatedPacks).texture).w,
                 MetaSizeOr(Head(relatedPacks).json, Head(relatedPacks).texture).h),
             Tail(relatedPacks))

\* the packed branch of loadFromFolder (lines 280-284)
BuildPackedAtlas(packedAtlasJson, packedAtlasTexture, relatedPacks) ==
    AddRelatedPages(
        createAtlasFromPackedJson(packedAtlasJson,
            OrElse(MetaSizeOr(packedAtlasJson, packedAtlasTexture).w,
                   packedAtlasTexture.width),
            OrElse(MetaSizeOr(packedAtlasJson, packedAtlasTexture).h,
                   packedAtlasTexture.height)),
        relatedPacks)

(***************************************************************************)
(* Native builder: binding the pages of the parsed .atlas text to the      *)
(* decoded textures (useSpineLoad.ts lines 285-293).                       *)
(***************************************************************************)

\* Map.prototype.get: the entry of the key, <<>> for undefined
MapGet(m, key) ==
    IF \E i \in 1..Len(m) : m[i].path = key
    THEN <<m[CHOOSE i \in 1..Len(m) : m[i].path = key]>>
    ELSE <<>>

\* textureName.split('/').pop() || textureName
LastSlashSegment(s) ==
    LET tail == IF \E i \in 1..Len(s) : s[i] = "/"
                THEN SubSeq(s, (CHOOSE i \in 1..Len(s) :
                                   s[i] = "/" /\ \A j \in (i + 1)..Len(s) : s[j] # "/") + 1,
                            Len(s))
                ELSE s
    IN  IF tail = <<>> THEN s ELSE tail

\* the texture page.setTexture is called with (lines 287-291), <<>> when it
\* is not called
PageTexture(textureName, pixiTextures) ==
    IF MapGet(pixiTextures, textureName) # <<>>
    THEN MapGet(pixiTextures, textureName)
    ELSE IF MapGet(pixiTextures, LastSlashSegment(textureName)) # <<>>
    THEN MapGet(pixiTextures, LastSlashSegment(textureName))
    ELSE IF Len(pixiTextures) > 0 THEN <<pixiTextures[1]>>
    ELSE <<>>

\* the loop of line 286 over atlas.pages
BindNativePages(pageNames, pixiTextures) ==
    [k \in 1..Len(pageNames) |-> PageTexture(pageNames[k], pixiTextures)]

(***************************************************************************)
(* Skeleton runtime (external): the region names readSkeletonData looks up *)
(* through AtlasAttachmentLoader, and its failure on a missing region.     *)
(***************************************************************************)

\* per attachment: its path, else its name, else its key
LookupBase(att) ==
    IF att.path # <<>> THEN att.path
    ELSE IF att.name # <<>> THEN att.name
    ELSE att.key

\* a sequence attachment: the base followed by each zero-padded frame index
AttachmentLookups(att) ==
    IF Len(att.sequence) = 1 /\ Len(att.sequence[1].count) = 1
    THEN {LookupBase(att) \o FrameSuffix(att.sequence[1], i - 1) :
             i \in 1..att.sequence[1].count[1]}
    ELSE {LookupBase(att)}

RuntimeLookups(sk) ==
    UNION {UNION {AttachmentLookups(sk.skins[s].attachments[k]) :
                     k \in 1..Len(sk.skins[s].attachments)} :
             s \in 1..Len(sk.skins)}

\* readSkeletonData(atlas, skeleton): raises when a looked-up region is absent
readSkeletonData(a, sk) ==
    IF RuntimeLookups(sk) \subseteq RegionNames(a) THEN "ok" ELSE "regionNotFound"

(***************************************************************************)
(* Folders.  A folder is described by what the classifier can observe:     *)
(*   jsons   the .json files in listing order, each with                   *)
(*             kind   "skeleton" (text holds "skeleton" and "bones"),      *)
(*                    "packed" (parses to frames + meta),                  *)
(*                    "other" (neither, or unreadable, or unparsable),     *)
(*                    "package" (its lower-cased path contains 'package')  *)
(*             stem   the file name without .json, lower-cased             *)
(*             image  for a packed file: "ok" when meta.image names a      *)
(*                    listed file (image 1), "missing" when it names none  *)
(*   atlas   "none" when no .atlas file is listed; "ok" for a file the     *)
(*           atlas parser accepts, whose first line names image 1; "bad"   *)
(*           for a file the parser rejects, whose first line names no      *)
(*           listed file                                                   *)
(*   images  the number of listed image files (image 1 .. image images)    *)
(*   looseBad  whether the last image file fails to decode                 *)
(*   related the entries of meta.related_multi_packs of the packed JSON    *)
(*           that gets selected, each with                                 *)
(*             kind   what becomes of the entry (see RelatedKinds)         *)
(*             frame  the frame name its JSON declares                     *)
(*           the JSON files of listed entries are among jsons              *)
(***************************************************************************)

MaxJson == 3

MaxImages == 2

JsonFiles ==
    {[kind |-> "skeleton", stem |-> "x", image |-> "none"],
     [kind |-> "other", stem |-> "z", image |-> "none"],
     [kind |-> "package", stem |-> "x", image |-> "none"]}
    \cup [kind : {"packed"}, stem : {"x", "z"}, image : {"ok", "missing"}]

RECURSIVE SeqsUpTo(_, _)
SeqsUpTo(S, n) ==
    IF n = 0 THEN {<<>>}
    ELSE LET shorter == SeqsUpTo(S, n - 1)
         IN  shorter \cup {Append(q, x) : q \in {t \in shorter : Len(t) = n - 1}, x \in S}

FolderOk(f) ==
    /\ f.looseBad => f.images >= 1
    /\ (\E i \in 1..Len(f.jsons) : f.jsons[i].image = "ok") => f.images >= 1

\* folders whose packed JSON names no related pack
PlainFolders ==
    {f \in [jsons : SeqsUpTo(JsonFiles, MaxJson) \ {<<>>},
            atlas : {"none", "ok", "bad"},
            images : 0..MaxImages, looseBad : BOOLEAN, related : {<<>>}] : FolderOk(f)}

MaxRelated == 2

\* what becomes of an entry of related_multi_packs (lines 195-224):
\*   "missing"          no listed file has its name (line 204)
\*   "unreadable"       api.readFile rejects (line 206)
\*   "unparsable"       JSON.parse throws (line 207)
\*   "noFrames", "noImage"  line 208
\*   "imageMissing"     no listed file has the name of its meta.image (line 219)
\*   "imageUnreadable"  api.readFileAsDataURL rejects (line 220)
\*   "imageBad"         loadTextureFromDataUrl rejects (line 221)
\*   "ok"               the pack is pushed on relatedPacks (line 223)
RelatedKinds ==
    {"missing", "unreadable", "unparsable", "noFrames", "noImage", "imageMissing",
     "imageUnreadable", "imageBad", "ok"}

\* the frame name of the primary pack, and the names linked packs may declare
PrimaryFrame == "f0"

RelatedFrames == {"f0", "f1", "f2", "f3"}

RelatedEntries ==
    [kind : RelatedKinds \ {"ok"}, frame : {"f1"}]
    \cup [kind : {"ok"}, frame : RelatedFrames]

\* a skeleton, the packed JSON named after it, the JSON of a linked pack
RelatedFolders ==
    [jsons : {<<[kind |-> "skeleton", stem |-> "x", image |-> "none"],
               [kind |-> "packed", stem |-> "x", image |-> img],
               [kind |-> "packed", stem |-> "z", image |-> "ok"]>> :
                 img \in {"ok", "missing"}},
     atlas : {"none", "ok"}, images : {1}, looseBad : {FALSE},
     related : SeqsUpTo(RelatedEntries, MaxRelated) \ {<<>>}]

AllFolders == PlainFolders \cup RelatedFolders

\* whether loadTextureFromDataUrl resolves for image k of the folder
DecodeOk(f, k) == ~(f.looseBad /\ k = f.images)

\* .json and not 'package': the files both scanning loops read
Scanned(f, i) == f.jsons[i].kind # "package"

\* the first scanned file at or after position i (0 when there is none)
NextScanned(f, i) ==
    IF \E j \in i..Len(f.jsons) : Scanned(f, j)
    THEN CHOOSE j \in i..Len(f.jsons) :
             Scanned(f, j) /\ \A k \in i..(j - 1) : ~Scanned(f, k)
    ELSE 0

\* content.includes('"skeleton"') && content.includes('"bones"')
IsSkeletonCandidate(f, i) == f.jsons[i].kind = "skeleton"

\* parsed.frames && parsed.meta && typeof parsed.frames === 'object'
IsPackedCandidate(f, i) == f.jsons[i].kind = "packed"

\* nameLower === skeletonBaseLower || nameLower === 'atlas-' + skeletonBaseLower
MatchesSkeleton(f, i, jsonPath) == f.jsons[i].stem = f.jsons[jsonPath].stem

\* if (!packedAtlasPath || matchesSkeleton) packedAtlasPath = p
SelectPacked(f, packedAtlasPath, i, jsonPath) ==
    IF IsPackedCandidate(f, i) /\ (packedAtlasPath = 0 \/ MatchesSkeleton(f, i, jsonPath))
    THEN i ELSE packedAtlasPath

\* mutant: the preferred file is selected whether or not it is a candidate
SelectSkeleton_Preferred(skeletonPaths, preferred) ==
    IF preferred # 0 THEN preferred ELSE skeletonPaths[1]

\* skeletonPaths.find(basename === preferred) ?? skeletonPaths[0]
SelectSkeleton(skeletonPaths, preferred) ==
    IF preferred \in Range(skeletonPaths) THEN preferred ELSE skeletonPaths[1]

\* allFiles.find(...) for meta.image of the selected packed file, with the
\* suffix-stripped fallback: 0 (null) or the image's index
PackedImagePath(f, packedAtlasPath) ==
    IF packedAtlasPath # 0 /\ f.jsons[packedAtlasPath].image = "ok" THEN 1 ELSE 0

\* allFiles.find(...) for the first line of the .atlas file: the last image
AtlasTexturePath(f) == IF f.atlas = "ok" THEN f.images ELSE 0

NoSkeletonMessage == "No Spine skeleton JSON found in folder"

ImageFailedMessage == "Failed to load image"

\* the message of the error new TextureAtlas throws on text it rejects
AtlasParseMessage == "Invalid atlas text"

\* the skeleton's skins and animations, as raw JSON and as parsed SkeletonData
SkeletonSkins == <<"default", "red">>

SkeletonAnimations == <<"idle", "run">>

(***************************************************************************)
(* Locating the packed JSON's image in the listing (useSpineLoad.ts lines  *)
(* 174-186): file names as strings.                                        *)
(***************************************************************************)

Backslash == <<"\\">>

\* imageName.replace(/\.[^.]+$/, '')
StripExtension(name) ==
    IF LastDot(name) # 0 /\ LastDot(name) < Len(name)
    THEN SubSeq(name, 1, LastDot(name) - 1)
    ELSE name

\* /-[0-9]+$/.test(baseName)
EndsWithDashDigits(baseName) ==
    /\ Len(StripTrailingDigits(baseName)) < Len(baseName)
    /\ EndsWith(StripTrailingDigits(baseName), <<"-">>)

\* imageName.replace(/-[0-9]+(\.[^.]+)$/, '$1')
StripDashDigits(name) ==
    IF LastDot(name) # 0 /\ LastDot(name) < Len(name)
       /\ EndsWithDashDigits(SubSeq(name, 1, LastDot(name) - 1))
    THEN LET base == StripTrailingDigits(SubSeq(name, 1, LastDot(name) - 1))
         IN  SubSeq(base, 1, Len(base) - 1) \o SubSeq(name, LastDot(name), Len(name))
    ELSE name

\* mutant: the suffix-stripped name is tried before the name itself
FallbackNames_StrippedFirst(imageName) ==
    IF EndsWithDashDigits(StripExtension(imageName))
    THEN <<StripDashDigits(imageName), imageName>>
    ELSE <<imageName>>

\* fallbackNames (lines 176-178)
FallbackNames(imageName) ==
    IF EndsWithDashDigits(StripExtension(imageName))
    THEN <<imageName, StripDashDigits(imageName)>>
    ELSE <<imageName>>

\* the predicate of allFiles.find (line 182)
FileMatches(f, name) ==
    \/ f = name
    \/ EndsWith(f, Slash \o name)
    \/ EndsWith(f, Backslash \o name)
    \/ ToLowerCase(f) = ToLowerCase(name)
    \/ EndsWith(ToLowerCase(f), Slash \o ToLowerCase(name))
    \/ EndsWith(ToLowerCase(f), Backslash \o ToLowerCase(name))

\* allFiles.find(...) ?? null: the position of the first match, 0 for null
FindFile(allFiles, name) ==
    IF \E i \in 1..Len(allFiles) : FileMatches(allFiles[i], name)
    THEN CHOOSE i \in 1..Len(allFiles) :
             /\ FileMatches(allFiles[i], name)
             /\ \A j \in 1..(i - 1) : ~FileMatches(allFiles[j], name)
    ELSE 0

\* the loop of lines 180-184 over names
RECURSIVE FindFirstOf(_, _)
FindFirstOf(allFiles, names) ==
    IF names = <<>> THEN 0
    ELSE IF FindFile(allFiles, Head(names)) # 0 THEN FindFile(allFiles, Head(names))
    ELSE FindFirstOf(allFiles, Tail(names))

\* packedImagePath for meta.image = imageName (lines 174-185)
ResolvePackedImagePath(allFiles, imageName) ==
    IF imageName = <<>> THEN 0 ELSE FindFirstOf(allFiles, FallbackNames(imageName))

NoSource == [folder |-> 0, stale |-> FALSE]

NoSelection == [kind |-> "none", name |-> ""]

NoViewer == [inst |-> 0, key |-> <<0, 0>>, deps |-> <<>>]

(***************************************************************************)
(* loadFromFolder (useSpineLoad.ts lines 82-355).                          *)
(*                                                                         *)
(* A load is a record: the values its closure captured, its local          *)
(* variables, the await it is suspended at (pc), and a history of what it  *)
(* did.  Each operator below is the synchronous code that runs from one    *)
(* point of the function up to its next await, return or throw; `cur` is   *)
(* loadIdRef.current === myLoadId at that moment.  fx collects the calls   *)
(* the segment makes on state outside the load (setError, appRef, ...).    *)
(***************************************************************************)

NewLoad(inst, id, deps) ==
    [inst |-> inst, myLoadId |-> id, folder |-> deps.folder,
     preferred |-> deps.json,
     skinName |-> deps.skin, animationName |-> deps.animation,
     pc |-> "listFiles", i |-> 0,
     skeletonPaths |-> <<>>, jsonPath |-> 0, packedAtlasPath |-> 0,
     atlasData |-> FALSE, packedAtlasTexture |-> FALSE, pixiTextures |-> {},
     app |-> "none", destroys |-> 0, builder |-> "none",
     skinToUse |-> "", targetAnim |-> "",
     relatedPacks |-> <<>>, atlasPages |-> <<>>, atlasRegions |-> <<>>,
     meta |-> <<>>,
     outcome |-> "running", err |-> "",
     did |-> {"listFiles"}, staleWork |-> {}, textures |-> 0, published |-> {},
     onErrorCalls |-> <<>>, fx |-> {}]

\* the load goes on to do `ws`; remembered as stale work when it is superseded
Work(r, ws, cur) ==
    [r EXCEPT !.did = @ \cup ws, !.staleWork = IF cur THEN @ ELSE @ \cup ws]

\* mutant: applyError without the loadId guard of line 88
ApplyError_Unguarded(r, msg, cur) ==
    [r EXCEPT !.fx = @ \cup {"applyError"}, !.onErrorCalls = Append(@, msg)]

\* applyError (lines 87-93)
ApplyError(r, msg, cur) ==
    IF cur
    THEN [r EXCEPT !.fx = @ \cup {"applyError"}, !.onErrorCalls = Append(@, msg)]
    ELSE r

\* throw inside the try block: catch (line 351) and applyError
Throw(r, msg, cur) ==
    ApplyError([r EXCEPT !.pc = "returned", !.outcome = "failed", !.err = msg], msg, cur)

\* app.destroy(); return (lines 257-258, 304-305)
DestroyAndReturn(r) ==
    [r EXCEPT !.pc = "returned", !.outcome = "superseded",
              !.app = "destroyed", !.destroys = @ + 1]

\* name && list.find(name) ? name : list[0]  (lines 323-325, 331-333)
NameToUse(name, list) == IF name \in Range(list) THEN name ELSE list[1]

\* the argument of notifyLoaded at line 166: names read from the raw JSON
\* the animation names lines 163-165 read from the raw JSON: the keys of
\* raw.animations, or none when it is not a plain object.  A folder whose raw
\* names differ from the parsed skeleton data's says so in rawAnimations.
RawAnimations(f) ==
    IF "rawAnimations" \in DOMAIN f THEN f.rawAnimations ELSE SkeletonAnimations

PrelimMeta(f) ==
    [skins |-> SkeletonSkins, animations |-> RawAnimations(f),
     skeletonFiles |-> <<>>, currentSkeletonFile |-> 0]

\* the argument of notifyLoaded at line 315.  A file is named by its position
\* in the listing, which stands for its path and for its basename.
FinalMeta(r) ==
    [skins |-> SkeletonSkins, animations |-> SkeletonAnimations,
     skeletonFiles |-> r.skeletonPaths, currentSkeletonFile |-> r.jsonPath]

\* lines 308-350
FinishReady(r) ==
    [r EXCEPT !.pc = "returned", !.outcome = "ready",
              !.meta = <<FinalMeta(r)>>,
              !.skinToUse = NameToUse(r.skinName, SkeletonSkins),
              !.targetAnim = NameToUse(r.animationName, SkeletonAnimations),
              !.did = @ \cup {"parse", "notify"},
              !.published = @ \cup {"skeletonDataRef", "spineRef"},
              !.fx = @ \cup {"publishSkeleton", "notifyFinal", "doneLoading"}]

\* the region names the skeleton of a folder requires: the frames of the
\* packs and the name of the first image
RequiredNames == <<"f0", "f1", "f2", "i1">>

\* the region name createSyntheticAtlas derives from the k-th image
ImageRegionNames == <<"i1", "i2", "i3">>

\* addPlaceholderRegionsForMissing on the load's atlas, names only
GapFilled(r) ==
    LET missing == FilterMissing(RequiredNames,
                                 {r.atlasRegions[k].name : k \in 1..Len(r.atlasRegions)})
    IN  IF missing = <<>> THEN r
        ELSE [r EXCEPT !.atlasPages = Append(@, "placeholder"),
                       !.atlasRegions =
                           @ \o [k \in 1..Len(missing) |->
                                    [name |-> missing[k], page |-> Len(r.atlasPages) + 1]]]

\* mutant: the skeleton is parsed on the atlas as the builder left it
AfterGapFill_Unfilled(r, cur) ==
    IF cur THEN FinishReady(r) ELSE DestroyAndReturn(r)

\* line 303
AfterGapFill(r, cur) ==
    IF cur THEN FinishReady(GapFilled(r)) ELSE DestroyAndReturn(GapFilled(r))

\* mutant: the .atlas file is preferred to the packed JSON
ChooseBuilder_NativeFirst(r) ==
    IF r.atlasData /\ r.pixiTextures # {} THEN "native"
    ELSE IF r.packedAtlasPath # 0 /\ r.packedAtlasTexture THEN "packed"
    ELSE "synthetic"

\* lines 279-300: which builder makes the atlas
ChooseBuilder(r) ==
    IF r.packedAtlasPath # 0 /\ r.packedAtlasTexture THEN "packed"
    ELSE IF r.atlasData /\ r.pixiTextures # {} THEN "native"
    ELSE "synthetic"

\* createAtlasFromPackedJson and addPackedPageToAtlas for each related pack
\* (lines 283-284): one page per pack, one region per frame of the pack
PackedPages(r, f) == <<"packed">> \o [k \in 1..Len(r.relatedPacks) |-> "related"]

PackedRegions(r, f) ==
    <<[name |-> PrimaryFrame, page |-> 1]>>
    \o [k \in 1..Len(r.relatedPacks) |->
           [name |-> f.related[r.relatedPacks[k]].frame, page |-> k + 1]]

\* the pages and regions each builder gives the atlas (lines 279-300): the
\* .atlas file declares the primary frame on one page; the synthetic atlas
\* has one page and one region per texture
BuiltPages(r, f) ==
    CASE ChooseBuilder(r) = "packed" -> PackedPages(r, f)
      [] ChooseBuilder(r) = "native" -> <<"atlas">>
      [] OTHER -> [k \in 1..Cardinality(r.pixiTextures) |-> "image"]

BuiltRegionsOf(r, f) ==
    CASE ChooseBuilder(r) = "packed" -> PackedRegions(r, f)
      [] ChooseBuilder(r) = "native" -> <<[name |-> PrimaryFrame, page |-> 1]>>
      [] OTHER -> [k \in 1..Cardinality(r.pixiTextures) |->
                      [name |-> ImageRegionNames[k], page |-> k]]

\* lines 260-264: the canvas is appended and the application stored
PublishApp(r) ==
    [r EXCEPT !.did = @ \cup {"publishApp"},
              !.published = @ \cup {"appRef", "container"},
              !.fx = @ \cup {"publishApp"}]

\* line 286: new TextureAtlas(atlasData) throws on text the parser rejects
NativeParseThrows(r, f) == ChooseBuilder(r) = "native" /\ f.atlas = "bad"

\* lines 260-302; a throw of the atlas parser reaches the catch of line 351
BuildAtlas(r, f) ==
    IF NativeParseThrows(r, f)
    THEN Throw(PublishApp(r), AtlasParseMessage, TRUE)
    ELSE [PublishApp(r) EXCEPT !.pc = "gapFill", !.builder = ChooseBuilder(r),
                               !.atlasPages = BuiltPages(r, f),
                               !.atlasRegions = BuiltRegionsOf(r, f),
                               !.did = @ \cup {"buildAtlas"}]

\* mutant: the application is published without the check of line 256
AfterAppInit_Unchecked(r, f, cur) == BuildAtlas(r, f)

\* line 256
AfterAppInit(r, f, cur) == IF cur THEN BuildAtlas(r, f) ELSE DestroyAndReturn(r)

\* lines 252-255
CreateApp(r, cur) ==
    IF cur
    THEN [r EXCEPT !.pc = "appInit", !.app = "live", !.did = @ \cup {"createApp"}]
    ELSE [r EXCEPT !.pc = "returned", !.outcome = "superseded"]

\* lines 241-250, from texturePaths[k - 1]
LooseFrom(r, f, k, cur) ==
    IF ~r.packedAtlasTexture /\ k <= f.images
    THEN Work([r EXCEPT !.pc = "looseRead", !.i = k], {"readImage"}, cur)
    ELSE CreateApp(r, cur)

\* lines 193-239; the folders of this model list no related_multi_packs
AtlasImageStage(r, f, cur) ==
    IF r.atlasData /\ AtlasTexturePath(f) # 0
    THEN Work([r EXCEPT !.pc = "atlasImageRead"], {"readImage"}, cur)
    ELSE LooseFrom(r, f, 1, cur)

\* the first entry of related_multi_packs at or after k whose JSON file is
\* in the listing (0 when there is none); the others are passed by line 204
NextRelated(r, f, k) ==
    IF r.packedAtlasPath # 0
       /\ \E j \in k..Len(f.related) : f.related[j].kind # "missing"
    THEN CHOOSE j \in k..Len(f.related) :
             /\ f.related[j].kind # "missing"
             /\ \A h \in k..(j - 1) : f.related[h].kind = "missing"
    ELSE 0

\* mutant: a related pack that cannot be loaded fails the load
RelatedSkip_Fatal(r, f, k, cur) == Throw(r, ImageFailedMessage, cur)

\* lines 193-225, from relatedNames[k - 1]
RelatedFrom(r, f, k, cur) ==
    IF NextRelated(r, f, k) # 0
    THEN Work([r EXCEPT !.pc = "relatedJsonRead", !.i = NextRelated(r, f, k)],
              {"readFile"}, cur)
    ELSE AtlasImageStage(r, f, cur)

\* continue, or the catch of line 224: on to the next entry
RelatedSkip(r, f, k, cur) == RelatedFrom(r, f, k, cur)

\* mutant: a packed JSON whose image is not in the listing fails the load
PackedImageStage_MissingIsFatal(r, f, cur) ==
    IF PackedImagePath(f, r.packedAtlasPath) # 0
    THEN Work([r EXCEPT !.pc = "packedImageRead"], {"readImage"}, cur)
    ELSE IF r.packedAtlasPath # 0
    THEN Throw(r, ImageFailedMessage, cur)
    ELSE RelatedFrom(r, f, 1, cur)

\* lines 169-191
PackedImageStage(r, f, cur) ==
    IF PackedImagePath(f, r.packedAtlasPath) # 0
    THEN Work([r EXCEPT !.pc = "packedImageRead"], {"readImage"}, cur)
    ELSE RelatedFrom(r, f, 1, cur)

\* lines 160-167: the first notifyLoaded, with the raw JSON's skins and animations
AfterReads(r, f, cur) ==
    PackedImageStage(Work([r EXCEPT !.fx = @ \cup {"notifyPrelim"},
                                    !.meta = <<PrelimMeta(f)>>], {"notify"}, cur),
                     f, cur)

\* lines 155-158
ReadPackedStage(r, f, cur) ==
    IF r.packedAtlasPath # 0
    THEN Work([r EXCEPT !.pc = "readPacked"], {"readFile"}, cur)
    ELSE AfterReads(r, f, cur)

\* line 154
ReadAtlasStage(r, f, cur) ==
    IF f.atlas # "none"
    THEN Work([r EXCEPT !.pc = "readAtlas"], {"readFile"}, cur)
    ELSE ReadPackedStage(r, f, cur)

\* lines 132-151, from allFiles[k - 1]
Scan2From(r, f, k, cur) ==
    IF NextScanned(f, k) # 0
    THEN Work([r EXCEPT !.pc = "scanAtlas", !.i = NextScanned(f, k)],
              {"readFile", "classifyAtlas"}, cur)
    ELSE Work([r EXCEPT !.pc = "readSkeleton"], {"readFile", "classifyAtlas"}, cur)

\* mutant: an empty skeleton list is not an error
AfterScan1_NoThrow(r, f, cur) ==
    Scan2From([r EXCEPT !.jsonPath = 1], f, 1, cur)

\* lines 117-130
AfterScan1(r, f, cur) ==
    IF r.skeletonPaths = <<>>
    THEN Throw(r, NoSkeletonMessage, cur)
    ELSE Scan2From([r EXCEPT !.jsonPath = SelectSkeleton(r.skeletonPaths, r.preferred)],
                   f, 1, cur)

\* lines 108-116, from allFiles[k - 1]
Scan1From(r, f, k, cur) ==
    IF NextScanned(f, k) # 0
    THEN Work([r EXCEPT !.pc = "scanSkeleton", !.i = NextScanned(f, k)],
              {"readFile"}, cur)
    ELSE AfterScan1(r, f, cur)

(***************************************************************************)
(* Inputs of the name-set specification                                    *)
(***************************************************************************)

MaxCount == 2

MaxDigits == 2

StartValues == {1, 9}

NumberOrAbsent(S) == {<<>>} \cup {<<n>> : n \in S}

SequenceOptions ==
    {<<>>}
    \cup {<<[count |-> c, digits |-> d, start |-> st]>> :
             c \in NumberOrAbsent(0..MaxCount),
             d \in NumberOrAbsent(0..MaxDigits),
             st \in NumberOrAbsent(StartValues)}

AttachmentKeys == {<<"a">>, <<"a", "1">>, <<"b">>}

AttachmentPaths == {<<>>, <<"p", "/", "a">>}

AttachmentNames == {<<>>, <<"n">>}

SkinNames == {<<>>, <<"s">>}

Entries ==
    [key : AttachmentKeys, path : AttachmentPaths, name : AttachmentNames,
     sequence : SequenceOptions]

PlainEntry(key) == [key |-> key, path |-> <<>>, name |-> <<>>, sequence |-> <<>>]

\* one or two skins; the first holds one arbitrary entry and at most one plain one
SkinOf(n, atts) == [name |-> n, attachments |-> atts]

Skeletons ==
    {[skins |-> <<SkinOf(n1, <<e>> \o rest)>> \o more] :
        n1 \in SkinNames, e \in Entries,
        rest \in {<<>>, <<PlainEntry(<<"b">>)>>},
        more \in {<<>>} \cup {<<SkinOf(n2, <<PlainEntry(<<"a", "1">>)>>)>> :
                                   n2 \in SkinNames}}

BuiltRegion(name) ==
    [name |-> name, page |-> 1, x |-> 0, y |-> 0, width |-> 8, height |-> 8,
     originalWidth |-> 8, originalHeight |-> 8, degrees |-> 0,
     u |-> <<0, 1>>, v |-> <<0, 1>>, u2 |-> <<1, 1>>, v2 |-> <<1, 1>>]

\* an atlas as some builder left it: one page, regions for some of these names
BuiltNames ==
    <<(<<"a">>), (<<"a", "0", "0", "0", "0">>),
      (<<"d", "e", "f", "a", "u", "l", "t", "/", "a">>)>>

RECURSIVE BuiltRegions(_, _)
BuiltRegions(picked, i) ==
    IF i > Len(BuiltNames) THEN <<>>
    ELSE (IF i \in picked THEN <<BuiltRegion(BuiltNames[i])>> ELSE <<>>)
         \o BuiltRegions(picked, i + 1)

BuiltAtlases ==
    {[pages |-> <<[name |-> <<"p">>, width |-> 8, height |-> 8]>>,
      regions |-> BuiltRegions(picked, 1)] : picked \in SUBSET (1..Len(BuiltNames))}
    \cup {EmptyAtlas}

(***************************************************************************)
(* Name-set specification: gap-fill a built atlas, then parse the skeleton *)
(* (useSpineLoad.ts lines 302-310)                                         *)
(***************************************************************************)

\* nothing opened, nothing mounted
\* the main process has not started
MainIdle ==
    /\ pendingOpenPath = 0 /\ mainWindow = 0 /\ renderer = "none"
    /\ toMain = <<>> /\ toRenderer = <<>> /\ mainLog = <<>>

LoaderIdle ==
    /\ folderPath = 0 /\ initialSkeletonJson = 0
    /\ skeletonFiles = <<>> /\ animations = <<>> /\ skins = <<>>
    /\ metaSource = NoSource
    /\ selectedAnimation = "" /\ selectedSkin = ""
    /\ viewer = NoViewer
    /\ loadIdRef = 0 /\ appRef = 0 /\ spineRef = 0 /\ skeletonDataRef = 0
    /\ currentAnimationRef = ""
    /\ isLoading = TRUE /\ error = ""
    /\ canvases = {} /\ raf = <<>> /\ loads = <<>>
    /\ userSelection = NoSelection

InitNames ==
    /\ skeleton \in Skeletons
    /\ atlas \in BuiltAtlases
    /\ namesPc = "built"
    /\ parseResult = "none"
    /\ call = NoCall /\ result = <<>>
    /\ MainIdle
    /\ LoaderIdle
    /\ folders = <<>> /\ inputsLeft = 0

GapFill ==
    /\ namesPc = "built"
    /\ atlas' = addPlaceholderRegionsForMissing(atlas, skeleton)
    /\ namesPc' = "filled"
    /\ UNCHANGED <<skeleton, parseResult, call, result, appVars, hookVars, userVars,
                   mainVars>>

ParseSkeleton ==
    /\ namesPc = "filled"
    /\ parseResult' = readSkeletonData(atlas, skeleton)
    /\ namesPc' = "parsed"
    /\ UNCHANGED <<skeleton, atlas, call, result, appVars, hookVars, userVars,
                   mainVars>>

\* addPlaceholderRegionsForMissing applied once more to the gap-filled atlas,
\* with the same skeleton
GapFillAgain ==
    /\ namesPc = "filled"
    /\ atlas' = addPlaceholderRegionsForMissing(atlas, skeleton)
    /\ namesPc' = "refilled"
    /\ UNCHANGED <<skeleton, parseResult, call, result, appVars, hookVars, userVars,
                   mainVars>>

NextNames == GapFill \/ ParseSkeleton \/ GapFillAgain

SpecNames == InitNames /\ [][NextNames]_vars

(***************************************************************************)
(* Function specification: one function of the loader is called on         *)
(* arguments drawn from small sets, and returns.                           *)
(***************************************************************************)

MaxFiles == 2

ImageNames ==
    {<<"a", "-", "0", ".", "w">>, <<"A", "-", "1", "0", ".", "w">>,
     <<"a", "-", "1", "-", "0", ".", "w">>, <<"a", "-", "0">>,
     <<"a", ".", "w">>, <<"a", "-", "0", ".", "b", ".", "w">>, <<>>}

FileNames ==
    {<<"a", "-", "0", ".", "w">>, <<"a", ".", "w">>, <<"A", ".", "W">>,
     <<"d", "/", "a", ".", "w">>, <<"d", "\\", "a", "-", "1", "0", ".", "w">>,
     <<"a", "-", "1", ".", "w">>, <<"b", "a", ".", "w">>, <<"a", "-", "0">>}

ResolveCalls ==
    [fn : {"resolvePackedImage"}, imageName : ImageNames,
     allFiles : SeqsUpTo(FileNames, MaxFiles)]

MaxTextures == 2

TexturePaths ==
    {<<"a", ".", "p", "n", "g">>, <<"p", "/", "a", ".", "p", "n", "g">>,
     <<"A", ".", "P", "N", "G">>, <<"b", ".", "w", "e", "b", "p">>,
     <<"n", ".", "j", "p", "g">>}

TextureWidths == {2, 8}

TextureHeights == {4}

\* a Map has one entry per key
TextureMaps ==
    {t \in SeqsUpTo([path : TexturePaths, width : TextureWidths,
                     height : TextureHeights], MaxTextures) :
        \A i, j \in 1..Len(t) : t[i].path = t[j].path => i = j}

SyntheticEntries ==
    [key : AttachmentKeys, path : AttachmentPaths, name : AttachmentNames,
     sequence : {<<>>, <<[count |-> <<1>>, digits |-> <<1>>, start |-> <<>>]>>}]

SyntheticSkeletons ==
    {[skins |-> <<SkinOf(n1, <<e>> \o rest)>> \o more] :
        n1 \in SkinNames, e \in SyntheticEntries,
        rest \in {<<>>, <<PlainEntry(<<"b">>)>>},
        more \in {<<>>, <<SkinOf(<<"s">>, <<PlainEntry(<<"a", "1">>)>>)>>}}

SyntheticCalls ==
    [fn : {"createSyntheticAtlas"}, textures : TextureMaps,
     skeleton : SyntheticSkeletons]

\* the loose images of a folder, some in a subfolder; a skeleton for them
LoosePaths ==
    TexturePaths \cup {<<"q", "\\", "b", ".", "w", "e", "b", "p">>}

LooseImages ==
    {t \in SeqsUpTo([path : LoosePaths, width : TextureWidths,
                     height : TextureHeights], MaxTextures) :
        \A i, j \in 1..Len(t) : t[i].path = t[j].path => i = j}

FolderSyntheticCalls ==
    [fn : {"syntheticFromFolder"}, texturePaths : LooseImages,
     skeleton : {[skins |-> <<SkinOf(<<>>, <<PlainEntry(<<"a">>)>>)>>]}]

MaxFrames == 2

\* frame rectangles: inside the page, reaching outside it, of zero width
FrameRects ==
    {[x |-> 0, y |-> 0, w |-> 4, h |-> 4], [x |-> 4, y |-> 2, w |-> 8, h |-> 4],
     [x |-> 2, y |-> 0, w |-> 0, h |-> 4]}

FrameEntries ==
    {[name |-> n, x |-> r.x, y |-> r.y, w |-> r.w, h |-> r.h, rotated |-> rot] :
        n \in {"f0", "f1"}, r \in FrameRects, rot \in BOOLEAN}

\* the keys of an object are distinct
FrameLists ==
    {fs \in SeqsUpTo(FrameEntries, MaxFrames) :
        \A i, j \in 1..Len(fs) : fs[i].name = fs[j].name => i = j}

MetaSizes == {<<>>, <<[w |-> 8, h |-> 8]>>, <<[w |-> 0, h |-> 8]>>}

DecodedTexture == [width |-> 16, height |-> 8]

PackedCalls ==
    [fn : {"buildPackedAtlas"},
     primary : [image : {"p0.png"}, size : MetaSizes, frames : FrameLists],
     related : SeqsUpTo([json : [image : {"p1.png"}, size : MetaSizes,
                                 frames : {fs \in FrameLists : Len(fs) = 1}],
                         texture : {DecodedTexture}], 1)]

MaxListed == 3

ListedPaths ==
    {<<"x", ".", "j", "s", "o", "n">>,
     <<"d", "/", "X", ".", "J", "S", "O", "N">>,
     <<"p", "a", "c", "k", "a", "g", "e", "/", "x", ".", "j", "s", "o", "n">>,
     <<"a", "t", "l", "a", "s", "-", "x", ".", "j", "s", "o", "n">>,
     <<"z", ".", "j", "s", "o", "n">>,
     <<"p", "a", "c", "k", "a", "g", "e", "/", "a", "t", "l", "a", "s", "-", "x",
       ".", "j", "s", "o", "n">>}

FileContents == {"skeleton", "packed", "other", "unreadable"}

\* a listing names each file once
Listings ==
    {fs \in SeqsUpTo([path : ListedPaths, content : FileContents], MaxListed) :
        \A i, j \in 1..Len(fs) : fs[i].path = fs[j].path => i = j}

PreferredInputs ==
    {<<>>, <<" ", "X", ".", "j", "s", "o", "n", " ">>, <<"q", ".", "j", "s", "o", "n">>}

ClassifyCalls ==
    [fn : {"classifyFolder"}, allFiles : Listings, initialSkeletonJson : PreferredInputs]

MaxEntries == 2

MaxSkins == 2

EntryValues ==
    {[kind |-> k, key |-> key, path |-> <<>>, name |-> <<>>, sequence |-> <<>>] :
        k \in {"null", "number"}, key \in {<<"a">>}}
    \cup {[kind |-> "object", key |-> key, path |-> pth, name |-> <<>>,
            sequence |-> <<>>] : key \in {<<"a">>, <<"b">>}, pth \in AttachmentPaths}

\* the keys of an object are distinct
SlotValues ==
    {[kind |-> "null", entries |-> <<>>], [kind |-> "number", entries |-> <<>>]}
    \cup {[kind |-> "object", entries |-> es] :
            es \in {q \in SeqsUpTo(EntryValues, MaxEntries) :
                       \A i, j \in 1..Len(q) : q[i].key = q[j].key => i = j}}

SkinValues ==
    {[kind |-> "null"], [kind |-> "object", name |-> <<>>, slots |-> <<"absent">>]}
    \cup {[kind |-> "object", name |-> n, slots |-> <<"object", <<sl>>>>] :
            n \in SkinNames, sl \in SlotValues}

JsonValues ==
    {[skins |-> <<"absent">>], [skins |-> <<"object">>]}
    \cup {[skins |-> <<"array", sv>>] : sv \in SeqsUpTo(SkinValues, MaxSkins)}

CollectCalls == [fn : {"collectSkeletonRegionNames"}, json : JsonValues]

MaxPages == 2

\* the image names the pages of a .atlas file declare
PageNames ==
    {<<"a", ".", "p", "n", "g">>, <<"q", "/", "n", ".", "j", "p", "g">>,
     <<"c", ".", "p", "n", "g">>}

\* the native branch is taken with pixiTextures.size > 0 (line 285)
NativeCalls ==
    [fn : {"bindNativePages"}, pageNames : SeqsUpTo(PageNames, MaxPages) \ {<<>>},
     pixiTextures : TextureMaps \ {<<>>}]

(***************************************************************************)
(* The spine-asset protocol handler of the main process (part_001 lines    *)
(* 176-198).  Paths are strings with '/' as path.sep; the selected folder  *)
(* is absolute.                                                            *)
(***************************************************************************)

\* the segments of a path: its pieces between separators, empty ones dropped
RECURSIVE SplitPath(_)
SplitPath(s) ==
    IF s = <<>> THEN <<>>
    ELSE IF Head(s) = Slash[1] THEN SplitPath(Tail(s))
    ELSE LET n == IF \E i \in 1..Len(s) : s[i] = Slash[1]
                  THEN (CHOOSE i \in 1..Len(s) :
                            s[i] = Slash[1] /\ \A j \in 1..(i - 1) : s[j] # Slash[1]) - 1
                  ELSE Len(s)
         IN  <<SubSeq(s, 1, n)>> \o SplitPath(SubSeq(s, n + 1, Len(s)))

DotDot == <<".", ".">>

\* '..' removes the segment before it; at the root it is dropped
RECURSIVE ResolveSegments(_, _)
ResolveSegments(done, rest) ==
    IF rest = <<>> THEN done
    ELSE IF Head(rest) = DotDot
    THEN ResolveSegments(IF done = <<>> THEN <<>> ELSE SubSeq(done, 1, Len(done) - 1),
                         Tail(rest))
    ELSE ResolveSegments(Append(done, Head(rest)), Tail(rest))

RECURSIVE JoinSegments(_)
JoinSegments(segs) ==
    IF segs = <<>> THEN <<>> ELSE Slash \o Head(segs) \o JoinSegments(Tail(segs))

\* path.normalize of an absolute path
PathNormalize(s) ==
    IF ResolveSegments(<<>>, SplitPath(s)) = <<>> THEN Slash
    ELSE JoinSegments(ResolveSegments(<<>>, SplitPath(s)))

\* path.join(a, b)
PathJoin(a, b) == PathNormalize(a \o Slash \o b)

\* path.resolve of an absolute path
PathResolve(s) == PathNormalize(s)

StartsWith(s, t) == Len(t) <= Len(s) /\ SubSeq(s, 1, Len(t)) = t

\* mutant: the base is the folder without the trailing separator
AssetBase_NoSep(folder) == PathResolve(folder)

\* path.resolve(currentSpineFolder) + path.sep (line 182)
AssetBase(folder) == PathResolve(folder) \o Slash

\* the handler's answer: its status, and the paths it passed to fs.readFile.
\* c.decoded is the request path with the scheme and leading slashes removed
\* and percent-decoded (lines 178-179); c.malformed says decodeURIComponent
\* throws instead; c.readable says fs.readFile resolves.
SpineAssetResponse(c) ==
    IF c.currentSpineFolder = <<>> THEN [status |-> 404, read |-> <<>>]
    ELSE IF c.malformed THEN [status |-> 0, read |-> <<>>]
    ELSE LET fullPath == PathNormalize(PathJoin(c.currentSpineFolder, c.decoded))
         IN  IF ~StartsWith(fullPath, AssetBase(c.currentSpineFolder))
             THEN [status |-> 403, read |-> <<>>]
             ELSE IF c.readable THEN [status |-> 200, read |-> <<fullPath>>]
             ELSE [status |-> 404, read |-> <<fullPath>>]

MaxSegments == 3

\* names of a file, of the parent, of the folder itself and of a sibling
\* whose name starts with the folder's
RequestSegments == {<<"a">>, DotDot, <<"s">>, <<"s", "2">>}

\* the selected folder /h/s
SelectedFolder == Slash \o <<"h">> \o Slash \o <<"s">>

RECURSIVE JoinRequest(_)
JoinRequest(segs) ==
    IF segs = <<>> THEN <<>>
    ELSE IF Len(segs) = 1 THEN Head(segs)
    ELSE Head(segs) \o Slash \o JoinRequest(Tail(segs))

RequestPaths == {JoinRequest(q) : q \in SeqsUpTo(RequestSegments, MaxSegments)}

AssetCalls ==
    [fn : {"spineAsset"}, currentSpineFolder : {<<>>, SelectedFolder},
     decoded : RequestPaths, malformed : BOOLEAN, readable : BOOLEAN]

InitLib ==
    /\ skeleton = [skins |-> <<>>] /\ atlas = EmptyAtlas
    /\ namesPc = "idle" /\ parseResult = "none"
    /\ call \in ResolveCalls \cup SyntheticCalls \cup FolderSyntheticCalls
                \cup PackedCalls \cup ClassifyCalls \cup NativeCalls
                \cup CollectCalls \cup AssetCalls
    /\ result = <<>>
    /\ MainIdle
    /\ LoaderIdle
    /\ folders = <<>> /\ inputsLeft = 0

\* lines 174-185 of loadFromFolder, taken alone
ResolvePackedImage ==
    /\ call.fn = "resolvePackedImage"
    /\ result = <<>>
    /\ result' = <<ResolvePackedImagePath(call.allFiles, call.imageName)>>
    /\ UNCHANGED <<skeleton, atlas, namesPc, parseResult, call, appVars, hookVars,
                   userVars, mainVars>>

\* createSyntheticAtlas, taken alone
CreateSynthetic ==
    /\ call.fn = "createSyntheticAtlas"
    /\ result = <<>>
    /\ result' = <<createSyntheticAtlas(call.textures, call.skeleton)>>
    /\ UNCHANGED <<skeleton, atlas, namesPc, parseResult, call, appVars, hookVars,
                   userVars, mainVars>>

\* the loose-image loop and the synthetic branch of loadFromFolder (lines
\* 241-250 and 294-300), taken alone
SyntheticFromFolder ==
    /\ call.fn = "syntheticFromFolder"
    /\ result = <<>>
    /\ result' = <<createSyntheticAtlas(RegisterLooseImages(<<>>, call.texturePaths),
                                        call.skeleton)>>
    /\ UNCHANGED <<skeleton, atlas, namesPc, parseResult, call, appVars, hookVars,
                   userVars, mainVars>>

\* the packed branch of loadFromFolder (lines 280-284), taken alone
BuildPacked ==
    /\ call.fn = "buildPackedAtlas"
    /\ result = <<>>
    /\ result' = <<BuildPackedAtlas(call.primary, DecodedTexture, call.related)>>
    /\ UNCHANGED <<skeleton, atlas, namesPc, parseResult, call, appVars, hookVars,
                   userVars, mainVars>>

\* lines 101-149 of loadFromFolder, taken alone
Classify ==
    /\ call.fn = "classifyFolder"
    /\ result = <<>>
    /\ result' = <<ClassifyFolder(call.allFiles, call.initialSkeletonJson)>>
    /\ UNCHANGED <<skeleton, atlas, namesPc, parseResult, call, appVars, hookVars,
                   userVars, mainVars>>

\* the native branch of loadFromFolder (lines 285-293), taken alone
BindNative ==
    /\ call.fn = "bindNativePages"
    /\ result = <<>>
    /\ result' = <<BindNativePages(call.pageNames, call.pixiTextures)>>
    /\ UNCHANGED <<skeleton, atlas, namesPc, parseResult, call, appVars, hookVars,
                   userVars, mainVars>>

\* collectSkeletonRegionNames on a parsed JSON value, taken alone
CollectNames ==
    /\ call.fn = "collectSkeletonRegionNames"
    /\ result = <<>>
    /\ result' = <<CollectFromJson(call.json)>>
    /\ UNCHANGED <<skeleton, atlas, namesPc, parseResult, call, appVars, hookVars,
                   userVars, mainVars>>

\* protocol.handle('spine-asset', ...) answering one request
SpineAsset ==
    /\ call.fn = "spineAsset"
    /\ result = <<>>
    /\ result' = <<SpineAssetResponse(call)>>
    /\ UNCHANGED <<skeleton, atlas, namesPc, parseResult, call, appVars, hookVars,
                   userVars, mainVars>>

NextLib ==
    \/ SpineAsset
    \/ CollectNames
    \/ BindNative
    \/ ResolvePackedImage
    \/ CreateSynthetic
    \/ SyntheticFromFolder
    \/ BuildPacked
    \/ Classify

SpecLib == InitLib /\ [][NextLib]_vars

(***************************************************************************)
(* The application: App.tsx state, the mounted SpineViewer with its        *)
(* useSpineLoad hook, and the loads in flight.                             *)
(***************************************************************************)

MaxInputs == 2

MaxLoads == 12

\* the folders of the session specification: no skeleton; a skeleton with a
\* loose image; a skeleton with a packed JSON, a .atlas and their image
SessionFolders ==
    <<[jsons |-> <<[kind |-> "other", stem |-> "z", image |-> "none"]>>,
       atlas |-> "none", images |-> 0, looseBad |-> FALSE, related |-> <<>>],
      [jsons |-> <<[kind |-> "skeleton", stem |-> "x", image |-> "none"]>>,
       atlas |-> "none", images |-> 1, looseBad |-> FALSE, related |-> <<>>],
      [jsons |-> <<[kind |-> "skeleton", stem |-> "x", image |-> "none"],
                   [kind |-> "packed", stem |-> "x", image |-> "ok"]>>,
       atlas |-> "ok", images |-> 1, looseBad |-> FALSE, related |-> <<>>]>>

\* what the next render passes to SpineViewer
DesiredKey == <<folderPath, initialSkeletonJson>>

DesiredDeps ==
    [folder |-> folderPath, json |-> initialSkeletonJson,
     skin |-> selectedSkin, animation |-> selectedAnimation]

\* loadIdRef.current === myLoadId, in the hook instance that started the load
Current(l) == loads[l].inst = viewer.inst /\ loads[l].myLoadId = loadIdRef

Init ==
    /\ skeleton = [skins |-> <<>>] /\ atlas = EmptyAtlas
    /\ namesPc = "idle" /\ parseResult = "none"
    /\ call = NoCall /\ result = <<>>
    /\ MainIdle
    /\ LoaderIdle
    /\ folders = SessionFolders
    /\ inputsLeft = MaxInputs

\* setFolder (App.tsx lines 30-39), from handleOpenFolder, handleDrop or the
\* open-file event; jsonFileName is 0 when a folder was opened
OpenFolder(k, jsonFileName) ==
    /\ inputsLeft > 0
    /\ inputsLeft' = inputsLeft - 1
    /\ folderPath' = k
    /\ initialSkeletonJson' = jsonFileName
    /\ skeletonFiles' = <<>>
    /\ animations' = <<>>
    /\ skins' = <<>>
    /\ metaSource' = NoSource
    /\ selectedAnimation' = ""
    /\ selectedSkin' = ""
    /\ userSelection' = NoSelection
    /\ UNCHANGED <<namesVars, folders, hookVars>>

\* onChange of the Animation dropdown (App.tsx line 147)
SelectAnimation(x) ==
    /\ inputsLeft > 0
    /\ x \in Range(animations)
    /\ x # selectedAnimation
    /\ selectedAnimation' = x
    /\ userSelection' = [kind |-> "animation", name |-> x]
    /\ inputsLeft' = inputsLeft - 1
    /\ UNCHANGED <<namesVars, folders, folderPath, initialSkeletonJson, skeletonFiles,
                   animations, skins, metaSource, selectedSkin, hookVars>>

\* onChange of the Skin dropdown (App.tsx line 161)
SelectSkin(x) ==
    /\ inputsLeft > 0
    /\ x \in Range(skins)
    /\ x # selectedSkin
    /\ selectedSkin' = x
    /\ userSelection' = [kind |-> "skin", name |-> x]
    /\ inputsLeft' = inputsLeft - 1
    /\ UNCHANGED <<namesVars, folders, folderPath, initialSkeletonJson, skeletonFiles,
                   animations, skins, metaSource, selectedAnimation, hookVars>>

\* mutant: the cleanup leaves the scheduled frame in place
CancelFrame_Never(q) == q

\* cancelAnimationFrame(rafId) (line 366): the frame the effect scheduled
\* is the only one pending
CancelFrame(q) == <<>>

\* the effect cleanup (useSpineLoad.ts lines 365-376) applied to loads
CleanupLoads ==
    IF appRef # 0
    THEN [loads EXCEPT ![appRef].app = "destroyed", ![appRef].destroys = @ + 1]
    ELSE loads

\* React renders App and commits.  A changed key (App.tsx line 207) unmounts
\* the SpineViewer and mounts a new one, whose hook state is fresh and whose
\* effects run (lines 357-364); changed dependencies of loadFromFolder
\* (line 355) run the cleanup and the effect again in the same instance.
\* The animationName and skinName effects of SpineViewer run after the
\* cleanup has cleared spineRef, and return at their first line.
Commit ==
    /\ folderPath # 0
    /\ viewer.inst = 0 \/ viewer.deps # DesiredDeps
    /\ viewer' = [inst |-> IF viewer.inst = 0 \/ viewer.key # DesiredKey
                           THEN viewer.inst + 1 ELSE viewer.inst,
                  key |-> DesiredKey, deps |-> DesiredDeps]
    /\ IF viewer.inst = 0 \/ viewer.key # DesiredKey
       THEN /\ loadIdRef' = 1
            /\ error' = ""
            /\ isLoading' = TRUE
       ELSE /\ loadIdRef' = loadIdRef + 2
            /\ UNCHANGED <<error, isLoading>>
    /\ loads' = CleanupLoads
    /\ appRef' = 0
    /\ spineRef' = 0
    /\ skeletonDataRef' = 0
    /\ currentAnimationRef' = ""
    /\ canvases' = {}
    /\ raf' = Append(CancelFrame(raf), DesiredDeps)
    /\ UNCHANGED <<namesVars, appVars, userVars>>

\* the animation frame calls loadFromFolder (lines 82-99); with an error
\* shown, SpineViewer renders no container and the call returns at line 83
RafFire ==
    /\ raf # <<>>
    /\ Len(loads) < MaxLoads
    /\ raf' = Tail(raf)
    /\ IF error # ""
       THEN UNCHANGED <<loads, isLoading, error>>
       ELSE /\ loads' = Append(loads, NewLoad(viewer.inst, loadIdRef, raf[1]))
            /\ isLoading' = TRUE
            /\ error' = ""
    /\ UNCHANGED <<namesVars, appVars, userVars, viewer, loadIdRef, appRef, spineRef,
                   skeletonDataRef, currentAnimationRef, canvases>>

\* meta.animations[0] ?? '' and meta.skins[0] ?? '' (App.tsx lines 64-65)
FirstOr(list) == IF list = <<>> THEN "" ELSE list[1]

\* A load resumes from its await and runs to r2: its record is stored and the
\* calls it made on the hook and on App (handleLoaded, lines 59-66) take effect.
Resume(l, r2) ==
    LET fx == r2.fx
        loaded == "notifyPrelim" \in fx \/ "notifyFinal" \in fx
    IN  /\ loads' = [loads EXCEPT ![l] = [r2 EXCEPT !.fx = {}]]
        /\ error' = IF "applyError" \in fx THEN r2.err ELSE error
        /\ isLoading' = IF "applyError" \in fx \/ "doneLoading" \in fx
                        THEN FALSE ELSE isLoading
        /\ appRef' = IF "publishApp" \in fx THEN l ELSE appRef
        /\ canvases' = IF "publishApp" \in fx THEN {l} ELSE canvases
        /\ skeletonDataRef' = IF "publishSkeleton" \in fx THEN l ELSE skeletonDataRef
        /\ spineRef' = IF "publishSkeleton" \in fx THEN l ELSE spineRef
        /\ currentAnimationRef' =
               IF "publishSkeleton" \in fx THEN r2.targetAnim ELSE currentAnimationRef
        /\ animations' = IF loaded THEN r2.meta[1].animations ELSE animations
        /\ skins' = IF loaded THEN r2.meta[1].skins ELSE skins
        /\ selectedAnimation' =
               IF loaded THEN FirstOr(r2.meta[1].animations) ELSE selectedAnimation
        /\ selectedSkin' = IF loaded THEN FirstOr(r2.meta[1].skins) ELSE selectedSkin
        /\ metaSource' = IF loaded
                         THEN [folder |-> r2.folder, stale |-> ~Current(l)]
                         ELSE metaSource
        /\ skeletonFiles' = IF "notifyFinal" \in fx THEN r2.skeletonPaths ELSE skeletonFiles
        /\ initialSkeletonJson' =
               IF "notifyFinal" \in fx THEN r2.jsonPath ELSE initialSkeletonJson
        /\ UNCHANGED <<namesVars, folders, folderPath, viewer, loadIdRef, raf, userVars>>

\* await api.listFiles (line 100)
ListFilesDone(l) ==
    /\ loads[l].pc = "listFiles"
    /\ Resume(l, Scan1From(loads[l], folders[loads[l].folder], 1, Current(l)))

\* await api.readFile in the skeleton loop (lines 113-114)
ScanSkeletonDone(l) ==
    /\ loads[l].pc = "scanSkeleton"
    /\ LET r == loads[l]
           f == folders[r.folder]
           r1 == IF IsSkeletonCandidate(f, r.i)
                 THEN [r EXCEPT !.skeletonPaths = Append(@, r.i)] ELSE r
       IN  Resume(l, Scan1From(r1, f, r.i + 1, Current(l)))

\* await api.readFile in the atlas loop (lines 138-144)
ScanAtlasDone(l) ==
    /\ loads[l].pc = "scanAtlas"
    /\ LET r == loads[l]
           f == folders[r.folder]
           r1 == [r EXCEPT !.packedAtlasPath = SelectPacked(f, @, r.i, r.jsonPath)]
       IN  Resume(l, Scan2From(r1, f, r.i + 1, Current(l)))

\* await api.readFile of the skeleton (line 151)
ReadSkeletonDone(l) ==
    /\ loads[l].pc = "readSkeleton"
    /\ Resume(l, ReadAtlasStage(loads[l], folders[loads[l].folder], Current(l)))

\* await api.readFile of the .atlas file (line 154)
ReadAtlasDone(l) ==
    /\ loads[l].pc = "readAtlas"
    /\ Resume(l, ReadPackedStage([loads[l] EXCEPT !.atlasData = TRUE],
                                 folders[loads[l].folder], Current(l)))

\* await api.readFile of the packed JSON (line 156)
ReadPackedDone(l) ==
    /\ loads[l].pc = "readPacked"
    /\ Resume(l, AfterReads(loads[l], folders[loads[l].folder], Current(l)))

\* a decoded texture, held by the load (loadTextureFromDataUrl resolved)
Decoded(r) == [r EXCEPT !.textures = @ + 1, !.did = @ \cup {"decoded"}]

\* await api.readFileAsDataURL of the packed image (line 187)
PackedImageReadDone(l) ==
    /\ loads[l].pc = "packedImageRead"
    /\ Resume(l, Work([loads[l] EXCEPT !.pc = "packedImageDecode"], {"decode"}, Current(l)))

\* await loadTextureFromDataUrl of the packed image (lines 188-190)
PackedImageDecodeDone(l) ==
    /\ loads[l].pc = "packedImageDecode"
    /\ LET r == loads[l]
           f == folders[r.folder]
       IN  IF DecodeOk(f, PackedImagePath(f, r.packedAtlasPath))
           THEN Resume(l, RelatedFrom([Decoded(r) EXCEPT !.packedAtlasTexture = TRUE],
                                      f, 1, Current(l)))
           ELSE Resume(l, Throw(r, ImageFailedMessage, Current(l)))

\* await api.readFile of a related pack's JSON (lines 206-219)
RelatedJsonReadDone(l) ==
    /\ loads[l].pc = "relatedJsonRead"
    /\ LET r == loads[l]
           f == folders[r.folder]
       IN  IF f.related[r.i].kind \in
                  {"unreadable", "unparsable", "noFrames", "noImage", "imageMissing"}
           THEN Resume(l, RelatedSkip(r, f, r.i + 1, Current(l)))
           ELSE Resume(l, Work([r EXCEPT !.pc = "relatedImageRead"],
                               {"readImage"}, Current(l)))

\* await api.readFileAsDataURL of a related pack's image (line 220)
RelatedImageReadDone(l) ==
    /\ loads[l].pc = "relatedImageRead"
    /\ LET r == loads[l]
           f == folders[r.folder]
       IN  IF f.related[r.i].kind = "imageUnreadable"
           THEN Resume(l, RelatedSkip(r, f, r.i + 1, Current(l)))
           ELSE Resume(l, Work([r EXCEPT !.pc = "relatedImageDecode"],
                               {"decode"}, Current(l)))

\* await loadTextureFromDataUrl of a related pack's image (lines 221-223)
RelatedImageDecodeDone(l) ==
    /\ loads[l].pc = "relatedImageDecode"
    /\ LET r == loads[l]
           f == folders[r.folder]
       IN  IF f.related[r.i].kind = "imageBad"
           THEN Resume(l, RelatedSkip(r, f, r.i + 1, Current(l)))
           ELSE Resume(l, RelatedFrom([Decoded(r) EXCEPT !.relatedPacks = Append(@, r.i)],
                                      f, r.i + 1, Current(l)))

\* the awaits of the related-pack loop
RelatedStep(l) ==
    \/ RelatedJsonReadDone(l)
    \/ RelatedImageReadDone(l)
    \/ RelatedImageDecodeDone(l)

\* await api.readFileAsDataURL of the .atlas file's image (line 233)
AtlasImageReadDone(l) ==
    /\ loads[l].pc = "atlasImageRead"
    /\ Resume(l, Work([loads[l] EXCEPT !.pc = "atlasImageDecode"], {"decode"}, Current(l)))

\* await loadTextureFromDataUrl of the .atlas file's image (lines 234-236)
AtlasImageDecodeDone(l) ==
    /\ loads[l].pc = "atlasImageDecode"
    /\ LET r == loads[l]
           f == folders[r.folder]
       IN  IF DecodeOk(f, AtlasTexturePath(f))
           THEN Resume(l, LooseFrom([Decoded(r) EXCEPT
                                        !.pixiTextures = @ \cup {AtlasTexturePath(f)}],
                                    f, 1, Current(l)))
           ELSE Resume(l, Throw(r, ImageFailedMessage, Current(l)))

\* await api.readFileAsDataURL of a loose image (line 243)
LooseReadDone(l) ==
    /\ loads[l].pc = "looseRead"
    /\ Resume(l, Work([loads[l] EXCEPT !.pc = "looseDecode"], {"decode"}, Current(l)))

\* await loadTextureFromDataUrl of a loose image (lines 244-248)
LooseDecodeDone(l) ==
    /\ loads[l].pc = "looseDecode"
    /\ LET r == loads[l]
           f == folders[r.folder]
       IN  IF DecodeOk(f, r.i)
           THEN Resume(l, LooseFrom([Decoded(r) EXCEPT !.pixiTextures = @ \cup {r.i}],
                                    f, r.i + 1, Current(l)))
           ELSE Resume(l, Throw(r, ImageFailedMessage, Current(l)))

\* await app.init (line 255)
AppInitDone(l) ==
    /\ loads[l].pc = "appInit"
    /\ Resume(l, AfterAppInit(loads[l], folders[loads[l].folder], Current(l)))

\* await addPlaceholderRegionsForMissing (line 302)
GapFillDone(l) ==
    /\ loads[l].pc = "gapFill"
    /\ Resume(l, AfterGapFill(loads[l], Current(l)))

LoadStep(l) ==
    \/ ListFilesDone(l)
    \/ ScanSkeletonDone(l)
    \/ ScanAtlasDone(l)
    \/ ReadSkeletonDone(l)
    \/ ReadAtlasDone(l)
    \/ ReadPackedDone(l)
    \/ PackedImageReadDone(l)
    \/ PackedImageDecodeDone(l)
    \/ AtlasImageReadDone(l)
    \/ AtlasImageDecodeDone(l)
    \/ LooseReadDone(l)
    \/ LooseDecodeDone(l)
    \/ AppInitDone(l)
    \/ GapFillDone(l)

\* the user opens folders (jsonFileName is null), or picks in a dropdown
UserStep ==
    \/ \E k \in 1..Len(folders) : OpenFolder(k, 0)
    \/ \E x \in Range(SkeletonAnimations) : SelectAnimation(x)
    \/ \E x \in Range(SkeletonSkins) : SelectSkin(x)

\* no state change of App is waiting for its render
Rendered == folderPath = 0 \/ (viewer.inst # 0 /\ viewer.deps = DesiredDeps)

\* React renders and runs effects before the next input, animation frame or
\* I/O completion is handled.  The session folders name no related pack, so
\* the awaits of the related-pack loop are never reached.
Next ==
    \/ Commit
    \/ Rendered /\ UserStep
    \/ Rendered /\ RafFire
    \/ Rendered /\ \E l \in 1..Len(loads) : LoadStep(l)

Spec == Init /\ [][Next]_vars

(***************************************************************************)
(* Opened-folder specification: one folder has been opened and the user    *)
(* gives no further input.  Every render, animation frame and completion   *)
(* of an external read or decode that is due eventually happens.           *)
(***************************************************************************)

\* a folder whose skeleton's raw JSON yields no animation name at lines
\* 163-165 while the parsed skeleton data has animations
RawDiffersFolder ==
    [jsons |-> <<[kind |-> "skeleton", stem |-> "x", image |-> "none"]>>,
     atlas |-> "none", images |-> 1, looseBad |-> FALSE, related |-> <<>>,
     rawAnimations |-> <<>>]

OpenedFolders == Range(SessionFolders) \cup {RawDiffersFolder}

InitOpen ==
    /\ skeleton = [skins |-> <<>>] /\ atlas = EmptyAtlas
    /\ namesPc = "idle" /\ parseResult = "none"
    /\ call = NoCall /\ result = <<>>
    /\ MainIdle
    /\ \E f \in OpenedFolders : folders = <<f>>
    /\ folderPath = 1
    /\ initialSkeletonJson = 0
    /\ skeletonFiles = <<>> /\ animations = <<>> /\ skins = <<>>
    /\ metaSource = NoSource
    /\ selectedAnimation = "" /\ selectedSkin = ""
    /\ viewer = NoViewer
    /\ loadIdRef = 0 /\ appRef = 0 /\ spineRef = 0 /\ skeletonDataRef = 0
    /\ currentAnimationRef = ""
    /\ isLoading = TRUE /\ error = ""
    /\ canvases = {} /\ raf = <<>> /\ loads = <<>>
    /\ userSelection = NoSelection
    /\ inputsLeft = 0

OpenRafFire == Rendered /\ RafFire

OpenLoadStep(l) == Rendered /\ l <= Len(loads) /\ LoadStep(l)

NextOpen ==
    \/ Commit
    \/ OpenRafFire
    \/ \E l \in 1..MaxLoads : OpenLoadStep(l)

SpecOpen ==
    /\ InitOpen /\ [][NextOpen]_vars
    /\ WF_vars(Commit)
    /\ WF_vars(OpenRafFire)
    /\ \A l \in 1..MaxLoads : WF_vars(OpenLoadStep(l))

(***************************************************************************)
(* Pipeline specification: one folder of any shape is open and mounted,    *)
(* and its first loadFromFolder call runs alone from start to return.      *)
(***************************************************************************)

InitPipeline ==
    /\ skeleton = [skins |-> <<>>] /\ atlas = EmptyAtlas
    /\ namesPc = "idle" /\ parseResult = "none"
    /\ call = NoCall /\ result = <<>>
    /\ MainIdle
    /\ \E f \in AllFolders : folders = <<f>>
    /\ folderPath = 1
    /\ initialSkeletonJson \in 0..1
    /\ skeletonFiles = <<>> /\ animations = <<>> /\ skins = <<>>
    /\ metaSource = NoSource
    /\ selectedAnimation = "" /\ selectedSkin = ""
    /\ viewer = [inst |-> 1, key |-> DesiredKey, deps |-> DesiredDeps]
    /\ loadIdRef = 1 /\ appRef = 0 /\ spineRef = 0 /\ skeletonDataRef = 0
    /\ currentAnimationRef = ""
    /\ isLoading = TRUE /\ error = ""
    /\ canvases = {} /\ raf = <<DesiredDeps>> /\ loads = <<>>
    /\ userSelection = NoSelection
    /\ inputsLeft = 0

NextPipeline ==
    \/ RafFire
    \/ \E l \in 1..Len(loads) : LoadStep(l)
    \/ \E l \in 1..Len(loads) : RelatedStep(l)

SpecPipeline == InitPipeline /\ [][NextPipeline]_vars

(***************************************************************************)
(* Open-with specification: the main process (part_001) with its window,   *)
(* the operating system delivering open-file events, and the renderer's    *)
(* effect of App.tsx lines 102-109.  Each open-file event delivers a path  *)
(* of its own: event k delivers path k.  A path given on the command line  *)
(* is StartupPath.                                                         *)
(***************************************************************************)

MaxEvents == 2

MaxWindows == 2

StartupPath == MaxEvents + 1

LogEntry(kind, path, win) == [kind |-> kind, path |-> path, win |-> win]

\* how many entries of the log are of this kind
RECURSIVE CountKind(_, _)
CountKind(log, kind) ==
    IF log = <<>> THEN 0
    ELSE (IF Head(log).kind = kind THEN 1 ELSE 0) + CountKind(Tail(log), kind)

\* sendOpenWithPath (part_001 lines 33-37), on the messages to the renderer
sendOpenWithPath(q, path) ==
    IF mainWindow # 0 THEN Append(q, [kind |-> "open-with-path", path |-> path]) ELSE q

\* the main process starts; off macOS a path among the arguments becomes the
\* pending path (lines 158-171)
InitMain ==
    /\ skeleton = [skins |-> <<>>] /\ atlas = EmptyAtlas
    /\ namesPc = "idle" /\ parseResult = "none"
    /\ call = NoCall /\ result = <<>>
    /\ LoaderIdle
    /\ folders = <<>> /\ inputsLeft = 0
    /\ pendingOpenPath \in {0, StartupPath}
    /\ mainWindow = 0 /\ renderer = "none"
    /\ toMain = <<>> /\ toRenderer = <<>> /\ mainLog = <<>>

\* createWindow (lines 39-62), called when the app is ready (line 199) and
\* on 'activate' while mainWindow is null (lines 206-208)
CreateWindow ==
    /\ mainWindow = 0
    /\ CountKind(mainLog, "window") < MaxWindows
    /\ mainWindow' = CountKind(mainLog, "window") + 1
    /\ renderer' = "loading"
    /\ toMain' = <<>> /\ toRenderer' = <<>>
    /\ mainLog' = Append(mainLog, LogEntry("window", 0, mainWindow'))
    /\ UNCHANGED <<pendingOpenPath, skeleton, atlas, namesPc, parseResult, call,
                   result, appVars, hookVars, userVars>>

\* the window is closed (lines 59-61); its renderer and what was on the way
\* to and from it are gone
WindowClosed ==
    /\ mainWindow # 0
    /\ mainWindow' = 0
    /\ renderer' = "none"
    /\ toMain' = <<>> /\ toRenderer' = <<>>
    /\ mainLog' = Append(mainLog, LogEntry("closed", 0, mainWindow))
    /\ UNCHANGED <<pendingOpenPath, skeleton, atlas, namesPc, parseResult, call,
                   result, appVars, hookVars, userVars>>

\* app.on('open-file') (lines 150-154)
OpenFile ==
    /\ CountKind(mainLog, "open-file") < MaxEvents
    /\ LET path == CountKind(mainLog, "open-file") + 1
       IN  /\ pendingOpenPath' = path
           /\ toRenderer' = sendOpenWithPath(toRenderer, path)
           /\ mainLog' = Append(mainLog, LogEntry("open-file", path, mainWindow))
    /\ UNCHANGED <<mainWindow, renderer, toMain, skeleton, atlas, namesPc, parseResult,
                   call, result, appVars, hookVars, userVars>>

\* the effect of App.tsx lines 102-109: getPendingOpenPath is invoked and
\* the open-with-path listener registered
RendererMount ==
    /\ renderer = "loading"
    /\ renderer' = "mounted"
    /\ toMain' = Append(toMain, mainWindow)
    /\ mainLog' = Append(mainLog, LogEntry("invoke", 0, mainWindow))
    /\ UNCHANGED <<pendingOpenPath, mainWindow, toRenderer, skeleton, atlas, namesPc,
                   parseResult, call, result, appVars, hookVars, userVars>>

\* ipcMain.handle('get-pending-open-path') (lines 70-74)
GetPendingOpenPath ==
    /\ toMain # <<>>
    /\ toMain' = Tail(toMain)
    /\ pendingOpenPath' = 0
    /\ toRenderer' = Append(toRenderer, [kind |-> "reply", path |-> pendingOpenPath])
    /\ mainLog' = Append(mainLog, LogEntry("get", pendingOpenPath, Head(toMain)))
    /\ UNCHANGED <<mainWindow, renderer, skeleton, atlas, namesPc, parseResult, call,
                   result, appVars, hookVars, userVars>>

\* what the renderer does with the next thing that reaches it: a message
\* without a registered listener is lost; the listener (line 108) and the
\* reply to getPendingOpenPath with a path (lines 105-107) call
\* openPathAsFolder (lines 89-100: getFolderForPath, then setFolder)
Received(msg) ==
    IF msg.kind = "open-with-path"
    THEN IF renderer = "mounted"
         THEN <<LogEntry("message", msg.path, mainWindow),
                LogEntry("opened", msg.path, mainWindow)>>
         ELSE <<>>
    ELSE IF msg.path # 0 THEN <<LogEntry("opened", msg.path, mainWindow)>>
    ELSE <<>>

RendererReceive ==
    /\ toRenderer # <<>>
    /\ toRenderer' = Tail(toRenderer)
    /\ mainLog' = mainLog \o Received(Head(toRenderer))
    /\ UNCHANGED <<pendingOpenPath, mainWindow, renderer, toMain, skeleton, atlas,
                   namesPc, parseResult, call, result, appVars, hookVars, userVars>>

NextMain ==
    \/ CreateWindow
    \/ WindowClosed
    \/ OpenFile
    \/ RendererMount
    \/ GetPendingOpenPath
    \/ RendererReceive

SpecMain == InitMain /\ [][NextMain]_vars

(***************************************************************************)
(* Properties of the name-set collector and the gap-filler                 *)
(***************************************************************************)

AllAttachments(sk) ==
    {<<s, k>> : s \in 1..Len(sk.skins), k \in 1..2} \cap
    {<<s, k>> \in (1..Len(sk.skins)) \X (1..2) : k <= Len(sk.skins[s].attachments)}

HasSequence(att) == Len(att.sequence) = 1 /\ Len(att.sequence[1].count) = 1

\* the value a string of decimal digits denotes
RECURSIVE DecimalValue(_)
DecimalValue(t) ==
    IF t = <<>> THEN 0
    ELSE 10 * DecimalValue(SubSeq(t, 1, Len(t) - 1))
         + (CHOOSE k \in 0..9 : Digits[k + 1] = t[Len(t)])

\* t is the decimal of value, zero-padded to width (longer only if value needs it)
IsZeroPadded(t, value, width) ==
    /\ \A i \in 1..Len(t) : IsDigit(t[i])
    /\ Len(t) >= 1
    /\ DecimalValue(t) = value
    /\ Len(t) >= width
    /\ (Len(t) > width /\ Len(t) > 1) => t[1] # "0"

\* b is key without its trailing digits
IsBaseOf(b, key) ==
    /\ Len(b) <= Len(key)
    /\ SubSeq(key, 1, Len(b)) = b
    /\ \A i \in (Len(b) + 1)..Len(key) : IsDigit(key[i])
    /\ (b # <<>>) => ~IsDigit(b[Len(b)])

\* C2: once addPlaceholderRegionsForMissing has resolved, every name of
\* collectSkeletonRegionNames(skeleton) is the name of a region of the atlas.
C2_RequiredNamesCovered ==
    namesPc \in {"filled", "parsed"} =>
        LET wanted == collectSkeletonRegionNames(skeleton)
        IN  \A i \in 1..Len(wanted) :
                \E r \in 1..Len(atlas.regions) : atlas.regions[r].name = wanted[i]

\* the gap-filler has run and had to add placeholder regions
C2_Witness ==
    /\ namesPc = "filled"
    /\ \E p \in 1..Len(atlas.pages) : atlas.pages[p].name = PlaceholderPageName
    /\ \E r \in 1..Len(atlas.regions) :
          /\ atlas.regions[r].width = PlaceholderSize
          /\ atlas.regions[r].name \in Range(collectSkeletonRegionNames(skeleton))
    /\ \E r \in 1..Len(atlas.regions) : atlas.regions[r].width # PlaceholderSize

\* C3: readSkeletonData never raises region-not-found on the gap-filled atlas:
\* every name the runtime looks up (path, else name, else key; for a sequence
\* that base plus each zero-padded frame index) is the name of a region.
C3_ParseNeverMissesRegion ==
    namesPc = "parsed" => parseResult # "regionNotFound"

\* C10: an attachment with a sequence (count n, digits d default 4, start s
\* default 0) yields exactly n frame names, the i-th being the base name
\* followed by s+i zero-padded to width d, each also present as skin/frame.
C10_SequenceFrames ==
    namesPc = "built" =>
        \A sa \in AllAttachments(skeleton) :
            LET skin == skeleton.skins[sa[1]]
                att == skin.attachments[sa[2]]
                seq == att.sequence[1]
                n == seq.count[1]
                d == IF seq.digits = <<>> THEN 4 ELSE seq.digits[1]
                st == IF seq.start = <<>> THEN 0 ELSE seq.start[1]
                frames == SequenceFrameNames(att)
                names == Range(collectSkeletonRegionNames(skeleton))
                skinName == IF skin.name = <<>> THEN DefaultSkinName ELSE skin.name
            IN  HasSequence(att) =>
                    /\ Len(frames) = n
                    /\ Cardinality(Range(frames)) = n
                    /\ \A i \in 1..n :
                          /\ \E b \in {SubSeq(att.key, 1, j) : j \in 0..Len(att.key)} :
                                /\ IsBaseOf(b, att.key)
                                /\ Len(frames[i]) > Len(b)
                                /\ SubSeq(frames[i], 1, Len(b)) = b
                                /\ IsZeroPadded(SubSeq(frames[i], Len(b) + 1, Len(frames[i])),
                                                st + i - 1, d)
                          /\ frames[i] \in names
                          /\ (skinName \o Slash \o frames[i]) \in names

\* a key ending in digits, two frames whose indices 9 and 10 differ in length
C10_Witness ==
    /\ namesPc = "built"
    /\ \E sa \in AllAttachments(skeleton) :
          LET att == skeleton.skins[sa[1]].attachments[sa[2]]
          IN  /\ HasSequence(att)
              /\ att.key = <<"a", "1">>
              /\ att.sequence[1].count = <<2>>
              /\ att.sequence[1].digits = <<2>>
              /\ att.sequence[1].start = <<9>>
              /\ SequenceFrameNames(att) = <<(<<"a", "0", "9">>), (<<"a", "1", "0">>)>>

\* the names one attachment of a skin gives rise to: its key, its declared
\* path and name, its sequence frames, and each of them behind '<skin>/'
DerivedNames(skin, att) ==
    LET skinName == IF skin.name = <<>> THEN DefaultSkinName ELSE skin.name
        plain == {att.key}
                 \cup (IF att.path = <<>> THEN {} ELSE {att.path})
                 \cup (IF att.name = <<>> THEN {} ELSE {att.name})
                 \cup Range(SequenceFrameNames(att))
    IN  plain \cup {skinName \o Slash \o n : n \in plain}

\* C11: for every skin (named 'default' when its name is absent or empty)
\* and every attachment entry, the collected set holds the key, the declared
\* path, the declared name, and each of them prefixed with '<skin>/'; and it
\* holds no name that is not derived so or as a sequence frame.
C11_CollectedNames ==
    namesPc \in {"filled", "parsed"} =>
        LET names == collectSkeletonRegionNames(skeleton)
        IN  /\ Range(names) =
                   UNION {DerivedNames(skeleton.skins[sa[1]],
                                       skeleton.skins[sa[1]].attachments[sa[2]]) :
                             sa \in AllAttachments(skeleton)}
            /\ Cardinality(Range(names)) = Len(names)

\* an unnamed skin with an attachment that declares a path and a name, and a
\* second, named skin
C11_Witness ==
    /\ namesPc = "filled"
    /\ Len(skeleton.skins) = 2
    /\ skeleton.skins[1].name = <<>>
    /\ skeleton.skins[2].name # <<>>
    /\ skeleton.skins[1].attachments[1].path # <<>>
    /\ skeleton.skins[1].attachments[1].name # <<>>
    /\ (DefaultSkinName \o Slash \o skeleton.skins[1].attachments[1].path)
           \in RegionNames(atlas)

\* the required names that no region of the atlas has
MissingSet ==
    {n \in Range(collectSkeletonRegionNames(skeleton)) :
        \A k \in 1..Len(atlas.regions) : atlas.regions[k].name # n}

\* C18: the gap-filler leaves the pages and regions of the atlas as they
\* were; when names are missing it appends one page, 16x16 and named
\* 'placeholder', and one region per missing name, each on that page with UV
\* (0,0)-(1,1); when none is missing it appends nothing.
C18_GapFillerEffect ==
    [][(namesPc = "built" /\ namesPc' = "filled") =>
         /\ SubSeq(atlas'.pages, 1, Len(atlas.pages)) = atlas.pages
         /\ SubSeq(atlas'.regions, 1, Len(atlas.regions)) = atlas.regions
         /\ IF MissingSet = {}
            THEN atlas' = atlas
            ELSE /\ Len(atlas'.pages) = Len(atlas.pages) + 1
                 /\ atlas'.pages[Len(atlas'.pages)] =
                        [name |-> PlaceholderPageName, width |-> 16, height |-> 16]
                 /\ Len(atlas'.regions) = Len(atlas.regions) + Cardinality(MissingSet)
                 /\ \A n \in MissingSet :
                        \E k \in (Len(atlas.regions) + 1)..Len(atlas'.regions) :
                            atlas'.regions[k].name = n
                 /\ \A k \in (Len(atlas.regions) + 1)..Len(atlas'.regions) :
                        /\ atlas'.regions[k].name \in MissingSet
                        /\ atlas'.regions[k].page = Len(atlas'.pages)
                        /\ atlas'.regions[k].u = <<0, 1>>
                        /\ atlas'.regions[k].v = <<0, 1>>
                        /\ atlas'.regions[k].u2 = <<1, 1>>
                        /\ atlas'.regions[k].v2 = <<1, 1>>]_vars

\* the gap-filler has appended its page and several regions to an atlas
\* that had a page and a region
C18_Witness ==
    /\ namesPc = "filled"
    /\ Len(atlas.pages) = 2
    /\ atlas.pages[2].name = PlaceholderPageName
    /\ atlas.regions[1].page = 1
    /\ Cardinality({k \in 1..Len(atlas.regions) : atlas.regions[k].page = 2}) >= 3

(***************************************************************************)
(* Properties of single functions                                          *)
(***************************************************************************)

\* file f of the listing is called n: the same name, or a path ending in a
\* separator and that name, letter case ignored
IsFileNamed(f, n) ==
    LET lf == ToLowerCase(f)
        ln == ToLowerCase(n)
    IN  \/ lf = ln
        \/ /\ Len(lf) > Len(ln)
           /\ \A i \in 1..Len(ln) : lf[Len(lf) - Len(ln) + i] = ln[i]
           /\ lf[Len(lf) - Len(ln)] \in {"/", "\\"}

\* n = pre - digits . ext, and t = pre . ext
IsStrippedOf(t, n) ==
    \E i \in 1..Len(n), j \in 1..Len(n) :
        /\ i + 1 < j /\ j < Len(n)
        /\ n[i] = "-" /\ n[j] = "."
        /\ \A k \in (i + 1)..(j - 1) : IsDigit(n[k])
        /\ \A k \in (j + 1)..Len(n) : n[k] # "."
        /\ t = SubSeq(n, 1, i - 1) \o SubSeq(n, j, Len(n))

\* i is the first file of the listing called n
IsFirstNamed(allFiles, i, n) ==
    /\ i \in 1..Len(allFiles)
    /\ IsFileNamed(allFiles[i], n)
    /\ \A j \in 1..(i - 1) : ~IsFileNamed(allFiles[j], n)

NoFileNamed(allFiles, n) == \A i \in 1..Len(allFiles) : ~IsFileNamed(allFiles[i], n)

\* C12: when meta.image ends with '-<digits>' before its extension and no
\* listed file matches it, but a file matches the name with that suffix
\* stripped, that file is the packed image; and whenever a file matches the
\* original name, the first such file is the packed image.
C12_StrippedNameFallback ==
    (call.fn = "resolvePackedImage" /\ result # <<>> /\ call.imageName # <<>>) =>
        /\ ~NoFileNamed(call.allFiles, call.imageName) =>
               IsFirstNamed(call.allFiles, result[1], call.imageName)
        /\ \A t \in FileNames :
               (/\ IsStrippedOf(t, call.imageName)
                /\ NoFileNamed(call.allFiles, call.imageName)
                /\ ~NoFileNamed(call.allFiles, t))
                   => IsFirstNamed(call.allFiles, result[1], t)

\* 'A-10.w' is not listed, 'd/a.w' is, and it is found
C12_Witness ==
    /\ call.fn = "resolvePackedImage"
    /\ call.imageName = <<"A", "-", "1", "0", ".", "w">>
    /\ call.allFiles = <<(<<"b", "a", ".", "w">>), (<<"d", "/", "a", ".", "w">>)>>
    /\ result = <<2>>

\* the call is a finished createSyntheticAtlas
SyntheticDone == call.fn = "createSyntheticAtlas" /\ result # <<>>

\* the file name of texture i without its extension
BareFileName(i) == StripImageExtension(FileNameOf(call.textures[i].path))

\* texture i is called like the last path segment of required name n
SuppliesRequired(i, n) ==
    /\ n \in Range(collectSkeletonRegionNames(call.skeleton))
    /\ LastSegment(n) = BareFileName(i)

\* region r lies on the page of texture i, covering the whole image
IsWholeImageRegion(r, i) ==
    /\ r.page = i
    /\ result[1].pages[i].name = call.textures[i].path
    /\ r.x = 0 /\ r.y = 0
    /\ r.width = call.textures[i].width /\ r.height = call.textures[i].height
    /\ r.u = <<0, 1>> /\ r.v = <<0, 1>> /\ r.u2 = <<1, 1>> /\ r.v2 = <<1, 1>>

\* C14: for every image whose file name without extension equals the last
\* path segment of a required name, the synthetic atlas has a region with
\* exactly that name, lying on the page of that image at x = y = 0 with the
\* image's width and height and UV (0,0)-(1,1), unless the region lies on
\* the page of an earlier image.
C14_SyntheticRegionPerImage ==
    SyntheticDone =>
        \A i \in 1..Len(call.textures) :
            \A n \in Range(collectSkeletonRegionNames(call.skeleton)) :
                SuppliesRequired(i, n) =>
                    \E k \in 1..Len(result[1].regions) :
                        /\ result[1].regions[k].name = n
                        /\ \/ IsWholeImageRegion(result[1].regions[k], i)
                           \/ result[1].regions[k].page < i

\* the second image 'p/a.png' supplies 'default/p/a', which no earlier image
\* claimed, and the region lies on its page
C14_Witness ==
    /\ SyntheticDone
    /\ Len(call.textures) = 2
    /\ call.textures[2].path = <<"p", "/", "a", ".", "p", "n", "g">>
    /\ call.textures[1].width # call.textures[2].width
    /\ SuppliesRequired(2, <<"d", "e", "f", "a", "u", "l", "t", "/", "p", "/", "a">>)
    /\ \E k \in 1..Len(result[1].regions) :
           /\ result[1].regions[k].name =
                  <<"d", "e", "f", "a", "u", "l", "t", "/", "p", "/", "a">>
           /\ IsWholeImageRegion(result[1].regions[k], 2)

\* texture i can supply name n: n is one of its regionNames
CouldSupply(i, n) ==
    n \in Range(CandidateRegionNames(call.textures[i].path,
                                     collectSkeletonRegionNames(call.skeleton)))

\* C20: the synthetic atlas holds each region name at most once, and a name
\* that several images could supply has its region on the page of the first
\* of them in the iteration order of the texture map.
C20_SyntheticNamesUnique ==
    SyntheticDone =>
        /\ \A j, k \in 1..Len(result[1].regions) :
               result[1].regions[j].name = result[1].regions[k].name => j = k
        /\ \A i \in 1..Len(call.textures) :
               \A n \in Range(CandidateRegionNames(call.textures[i].path,
                                  collectSkeletonRegionNames(call.skeleton))) :
                   \E k \in 1..Len(result[1].regions) :
                       /\ result[1].regions[k].name = n
                       /\ result[1].regions[k].page <= i
                       /\ CouldSupply(result[1].regions[k].page, n)
                       /\ \A h \in 1..(result[1].regions[k].page - 1) :
                              ~CouldSupply(h, n)

\* 'a.png' and then 'p/a.png' can both supply the required name 'default/a'
C20_Witness ==
    /\ SyntheticDone
    /\ Len(call.textures) = 2
    /\ CouldSupply(1, <<"d", "e", "f", "a", "u", "l", "t", "/", "a">>)
    /\ CouldSupply(2, <<"d", "e", "f", "a", "u", "l", "t", "/", "a">>)
    /\ <<"d", "e", "f", "a", "u", "l", "t", "/", "a">>
           \in Range(collectSkeletonRegionNames(call.skeleton))
    /\ \E k \in 1..Len(result[1].regions) :
           /\ result[1].regions[k].name = <<"d", "e", "f", "a", "u", "l", "t", "/", "a">>
           /\ result[1].regions[k].page = 1

\* C21: every region of a synthetic atlas has a name of the required
\* name-set collectSkeletonRegionNames(skeleton): a candidate name derived
\* from an image gets a region only when the skeleton requires it.
C21_SyntheticRegionsRequired ==
    SyntheticDone =>
        \A k \in 1..Len(result[1].regions) :
            result[1].regions[k].name
                \in Range(collectSkeletonRegionNames(call.skeleton))

\* C22: the atlas the synthetic builder makes of a folder has exactly one
\* page per loose image file, images in a subfolder included.
C22_OnePagePerLooseImage ==
    (call.fn = "syntheticFromFolder" /\ result # <<>>) =>
        Len(result[1].pages) = Len(call.texturePaths)

\* the call is a finished build of a packed atlas
PackedDone == call.fn = "buildPackedAtlas" /\ result # <<>>

\* q = <<a, b>> is a finite quotient with 0 <= a / b <= 1
InUnitRange(q) == q[2] > 0 /\ 0 <= q[1] /\ q[1] <= q[2]

\* C23: every region of a packed atlas, primary and linked pages alike, has
\* u, v, u2, v2 in [0,1] with u2 > u and v2 > v, for frames of zero size,
\* frames outside meta.size and a meta.size with a zero dimension too.
C23_RegionUVsValid ==
    PackedDone =>
        \A k \in 1..Len(result[1].regions) :
            LET r == result[1].regions[k]
            IN  /\ InUnitRange(r.u) /\ InUnitRange(r.v)
                /\ InUnitRange(r.u2) /\ InUnitRange(r.v2)
                /\ r.u2[1] > r.u[1]
                /\ r.v2[1] > r.v[1]

\* the packs of the call in page order, each with its page size
PacksInOrder ==
    <<[json |-> call.primary,
       w |-> IF call.primary.size # <<>> /\ call.primary.size[1].w # 0
             THEN call.primary.size[1].w ELSE DecodedTexture.width,
       h |-> IF call.primary.size # <<>> /\ call.primary.size[1].h # 0
             THEN call.primary.size[1].h ELSE DecodedTexture.height]>>
    \o [k \in 1..Len(call.related) |->
           [json |-> call.related[k].json,
            w |-> IF call.related[k].json.size # <<>>
                  THEN call.related[k].json.size[1].w ELSE call.related[k].texture.width,
            h |-> IF call.related[k].json.size # <<>>
                  THEN call.related[k].json.size[1].h ELSE call.related[k].texture.height]]

\* the number of frames of the packs before pack p
RECURSIVE FramesBefore(_)
FramesBefore(p) ==
    IF p = 1 THEN 0
    ELSE FramesBefore(p - 1) + Len(PacksInOrder[p - 1].json.frames)

ClassifyDone == call.fn = "classifyFolder" /\ result # <<>>

\* the name of the file itself, without its directories
OwnName(path) ==
    IF \E i \in 1..Len(path) : path[i] \in {"/", "\\"}
    THEN SubSeq(path, 1 + CHOOSE i \in 1..Len(path) :
                            /\ path[i] \in {"/", "\\"}
                            /\ \A j \in (i + 1)..Len(path) : path[j] \notin {"/", "\\"},
                Len(path))
    ELSE path

\* the file's name ends in .json, letter case ignored
IsJsonName(path) ==
    /\ Len(path) >= 5
    /\ ToLowerCase(SubSeq(path, Len(path) - 4, Len(path))) = <<".", "j", "s", "o", "n">>

\* C25: a listed file is a skeleton candidate if and only if it is a .json
\* file with both markers whose own file name does not contain 'package',
\* whatever the names of the directories it lies in.
C25_SkeletonCandidates ==
    ClassifyDone =>
        \A i \in 1..Len(call.allFiles) :
            (call.allFiles[i].path \in Range(result[1].skeletonPaths))
            = (/\ IsJsonName(call.allFiles[i].path)
               /\ call.allFiles[i].content = "skeleton"
               /\ ~Includes(ToLowerCase(OwnName(call.allFiles[i].path)), PackageWord))

\* the stem of a file: its own name without .json, in lower case
StemOf(path) ==
    LET n == ToLowerCase(OwnName(path))
    IN  IF IsJsonName(path) THEN SubSeq(n, 1, Len(n) - 5) ELSE n

\* file i parses to an object with frames and meta
IsPackedJson(i) ==
    IsJsonName(call.allFiles[i].path) /\ call.allFiles[i].content = "packed"

\* file i is named after the chosen skeleton
NamedAfterSkeleton(i) ==
    \/ StemOf(call.allFiles[i].path) = StemOf(result[1].jsonPath)
    \/ StemOf(call.allFiles[i].path)
           = <<"a", "t", "l", "a", "s", "-">> \o StemOf(result[1].jsonPath)

\* C26: among all JSON files that parse to an object with frames and meta,
\* the selected packed atlas is one named after the chosen skeleton (stem or
\* 'atlas-' + stem) when there is one, and the first in listing order when
\* there is none.
C26_PackedSelection ==
    (ClassifyDone /\ result[1].outcome = "classified") =>
        LET packed == {i \in 1..Len(call.allFiles) : IsPackedJson(i)}
            named == {i \in packed : NamedAfterSkeleton(i)}
        IN  /\ named # {} =>
                   \E i \in named : result[1].packedAtlasPath = <<call.allFiles[i].path>>
            /\ (named = {} /\ packed # {}) =>
                   result[1].packedAtlasPath
                       = <<call.allFiles[CHOOSE i \in packed :
                                            \A j \in packed : i <= j].path>>
            /\ packed = {} => result[1].packedAtlasPath = <<>>

\* the candidates whose own name is the preferred name, trimmed, case ignored
PreferredHits ==
    {i \in 1..Len(result[1].skeletonPaths) :
        /\ Trim(call.initialSkeletonJson) # <<>>
        /\ ToLowerCase(OwnName(result[1].skeletonPaths[i]))
               = ToLowerCase(Trim(call.initialSkeletonJson))}

\* C27: when the preferred name matches candidates the first of them in
\* listing order is selected; when it is absent or matches none the first
\* candidate is selected; a folder with a candidate is always classified.
C27_SkeletonSelection ==
    ClassifyDone =>
        /\ (result[1].outcome = "failed") = (result[1].skeletonPaths = <<>>)
        /\ result[1].outcome = "classified" =>
               IF PreferredHits # {}
               THEN result[1].jsonPath
                        = result[1].skeletonPaths[CHOOSE i \in PreferredHits :
                                                     \A j \in PreferredHits : i <= j]
               ELSE result[1].jsonPath = result[1].skeletonPaths[1]

\* ' X.json ' is preferred; z.json is listed first, and d/X.JSON before
\* x.json: d/X.JSON is selected
C27_Witness ==
    /\ ClassifyDone
    /\ call.initialSkeletonJson = <<" ", "X", ".", "j", "s", "o", "n", " ">>
    /\ Len(result[1].skeletonPaths) = 3
    /\ result[1].skeletonPaths[1] = <<"z", ".", "j", "s", "o", "n">>
    /\ result[1].skeletonPaths[3] = <<"x", ".", "j", "s", "o", "n">>
    /\ result[1].jsonPath = <<"d", "/", "X", ".", "J", "S", "O", "N">>

\* image path p answers to the image name n a page declares: the same name,
\* letter case ignored, or one is the other behind a directory prefix
AnswersTo(p, n) ==
    \/ ToLowerCase(p) = ToLowerCase(n)
    \/ EndsWith(ToLowerCase(p), Slash \o ToLowerCase(n))
    \/ EndsWith(ToLowerCase(n), Slash \o ToLowerCase(p))

\* C28: the native builder binds a page only to an image that matches the
\* image name the page declares; when no image matches, the page is left
\* unbound.
C28_NativePageBinding ==
    (call.fn = "bindNativePages" /\ result # <<>>) =>
        \A k \in 1..Len(call.pageNames) :
            result[1][k] # <<>> => AnswersTo(result[1][k][1].path, call.pageNames[k])

\* the keys of the well-formed attachment entries of the skins, when skins
\* is an array
WellFormedKeys ==
    IF call.json.skins[1] # "array" THEN {}
    ELSE {e.key : e \in UNION {UNION {Range(sl.entries) :
                                   sl \in {x \in Range(sk.slots[2]) : x.kind = "object"}} :
                    sk \in {x \in Range(call.json.skins[2]) :
                               x.kind = "object" /\ x.slots[1] = "object"}}
                  \cap {x \in EntryValues : x.kind = "object"}}

\* C29: collectSkeletonRegionNames has no error outcome: for every parsed
\* JSON, malformed skins, slots or attachment entries included, it returns
\* a set that holds the name of every well-formed attachment.
C29_CollectorNeverThrows ==
    (call.fn = "collectSkeletonRegionNames" /\ result # <<>>) =>
        /\ ~result[1].threw
        /\ \A key \in WellFormedKeys : key \in Range(result[1].names)

\* where the request leads, segment by segment from the selected folder
RequestTarget(c) ==
    ResolveSegments(<<>>, SplitPath(c.currentSpineFolder) \o SplitPath(c.decoded))

\* the target is a proper descendant of the selected folder
StrictlyInside(c) ==
    LET folder == ResolveSegments(<<>>, SplitPath(c.currentSpineFolder))
    IN  /\ Len(RequestTarget(c)) > Len(folder)
        /\ SubSeq(RequestTarget(c), 1, Len(folder)) = folder

FolderOf(l) == folders[loads[l].folder]

\* both scanning loops of the load are over
Classified(l) == loads[l].pc \notin {"listFiles", "scanSkeleton", "scanAtlas"}

\* the atlas of the load has been built
Built(l) == loads[l].builder # "none"

\* nothing is scheduled, rendering or suspended
Settled ==
    /\ Rendered
    /\ raf = <<>>
    /\ \A l \in 1..Len(loads) : loads[l].pc = "returned"

\* C1: once the load of a folder has been superseded, nothing the UI shows
\* (the lists delivered through onLoaded, appRef, spineRef, skeletonDataRef,
\* the canvas) comes from that load while another folder is open.
C1_SupersededLoadInvisible ==
    /\ metaSource.stale => metaSource.folder = folderPath
    /\ \A l \in 1..Len(loads) :
          (~Current(l) /\ loads[l].folder # folderPath) =>
              /\ appRef # l
              /\ spineRef # l
              /\ skeletonDataRef # l
              /\ l \notin canvases

\* C4: after every await the load checks loadIdRef before it reads a file,
\* decodes an image, builds or notifies: a superseded load does no such work.
C4_SupersededLoadDoesNoWork ==
    \A l \in 1..Len(loads) : loads[l].staleWork = {}

\* C5: a load that ends superseded holds no decoded texture and no live
\* Application when it returns, and published nothing.
C5_SupersededLoadReleasesAll ==
    \A l \in 1..Len(loads) :
        loads[l].outcome = "superseded" =>
            /\ loads[l].textures = 0
            /\ loads[l].app # "live"
            /\ loads[l].published = {}

\* the folder has a packed JSON whose meta.image is listed and decodes
HasValidPacked(f) ==
    \E i \in 1..Len(f.jsons) :
        f.jsons[i].kind = "packed" /\ f.jsons[i].image = "ok" /\ DecodeOk(f, 1)

\* the folder has a .atlas file whose image is listed and decodes
HasValidNative(f) ==
    f.atlas = "ok" /\ f.images >= 1 /\ DecodeOk(f, f.images)

\* the packed JSON the classifier selected has its image listed and decodable
SelectedPackedValid(l) ==
    /\ loads[l].packedAtlasPath # 0
    /\ PackedImagePath(FolderOf(l), loads[l].packedAtlasPath) # 0
    /\ DecodeOk(FolderOf(l), PackedImagePath(FolderOf(l), loads[l].packedAtlasPath))

\* C6 as stated: a folder that contains a valid packed JSON and a valid
\* .atlas file is built by the packed builder.
C6_AnyValidPackedWins ==
    \A l \in 1..Len(loads) :
        (Built(l) /\ HasValidPacked(FolderOf(l)) /\ HasValidNative(FolderOf(l)))
            => loads[l].builder = "packed"

\* C6: when the packed JSON selected by the classifier is valid and the
\* folder also has a valid .atlas file, the atlas is built by the packed
\* builder, never by the native or the synthetic one.
C6_SelectedPackedWins ==
    \A l \in 1..Len(loads) :
        (Built(l) /\ SelectedPackedValid(l) /\ HasValidNative(FolderOf(l)))
            => loads[l].builder = "packed"

\* a folder with a valid packed JSON and a valid .atlas file has been built
C6_Witness ==
    \E l \in 1..Len(loads) :
        /\ loads[l].builder = "packed"
        /\ loads[l].atlasData
        /\ loads[l].pixiTextures # {}
        /\ HasValidNative(FolderOf(l))

\* a packed JSON was selected and its image is not in the listing
PackedImageMissing(l) ==
    /\ Classified(l)
    /\ loads[l].packedAtlasPath # 0
    /\ PackedImagePath(FolderOf(l), loads[l].packedAtlasPath) = 0

NoSkeletonCandidate(f) ==
    \A i \in 1..Len(f.jsons) : ~(Scanned(f, i) /\ IsSkeletonCandidate(f, i))

AtlasWork == {"classifyAtlas", "readImage", "decode", "decoded", "createApp",
              "publishApp", "buildAtlas", "parse", "notify"}

\* C8: in a folder without skeleton candidate the load fails with 'No Spine
\* skeleton JSON found in folder', shown in the error state and passed to
\* onError while the load is current, and it does no atlas work: no atlas
\* classification, image read or decode, Application, or onLoaded.
C8_NoSkeletonFails ==
    \A l \in 1..Len(loads) :
        NoSkeletonCandidate(FolderOf(l)) =>
            /\ loads[l].did \cap AtlasWork = {}
            /\ loads[l].app = "none" /\ loads[l].textures = 0
            /\ loads[l].pc \in {"listFiles", "scanSkeleton", "returned"}
            /\ loads[l].pc = "returned" =>
                  /\ loads[l].outcome = "failed"
                  /\ loads[l].err = NoSkeletonMessage
                  /\ Len(loads[l].onErrorCalls) <= 1
                  /\ Current(l) =>
                        /\ error = NoSkeletonMessage
                        /\ ~isLoading
                        /\ loads[l].onErrorCalls = <<NoSkeletonMessage>>

\* a current load has failed for want of a skeleton
C8_Witness ==
    \E l \in 1..Len(loads) :
        /\ NoSkeletonCandidate(FolderOf(l))
        /\ loads[l].outcome = "failed"
        /\ Current(l)
        /\ error = NoSkeletonMessage

\* C9: once the viewer has settled after the user picked X in the Animation
\* (or Skin) dropdown, the dropdown still shows X and the loaded skeleton
\* plays animation X (wears skin X).
C9_SelectionSettles ==
    Settled =>
        /\ userSelection.kind = "animation" =>
              /\ selectedAnimation = userSelection.name
              /\ currentAnimationRef = userSelection.name
        /\ userSelection.kind = "skin" =>
              /\ selectedSkin = userSelection.name
              /\ spineRef # 0
              /\ loads[spineRef].skinToUse = userSelection.name

\* the entries of related_multi_packs that can be loaded
OkEntries(f) == {k \in 1..Len(f.related) : f.related[k].kind = "ok"}

\* the load is past the related-pack loop
RelatedDone(l) ==
    loads[l].pc \in {"atlasImageRead", "atlasImageDecode", "looseRead", "looseDecode",
                     "appInit", "gapFill"}
    \/ loads[l].outcome \in {"ready", "superseded"}

RegionNamesOf(l) == {loads[l].atlasRegions[k].name : k \in 1..Len(loads[l].atlasRegions)}

\* some region called n lies on a page called p
HasRegionOn(l, n, p) ==
    \E k \in 1..Len(loads[l].atlasRegions) :
        /\ loads[l].atlasRegions[k].name = n
        /\ loads[l].atlasPages[loads[l].atlasRegions[k].page] = p

\* C13: an entry of related_multi_packs whose JSON is missing, unreadable,
\* unparsable or without frames or meta.image, or whose image cannot be
\* located, read or decoded, is skipped: the load does not fail or stop, the
\* atlas is built from the primary pack and the entries that load, and the
\* names of a skipped pack that the skeleton requires get placeholder regions.
C13_RelatedPackSkipped ==
    \A l \in 1..Len(loads) :
        LET f == FolderOf(l)
            r == loads[l]
        IN  (f.related # <<>> /\ Classified(l) /\ r.packedAtlasPath # 0) =>
                /\ r.outcome # "failed"
                /\ Range(r.relatedPacks) \subseteq OkEntries(f)
                /\ RelatedDone(l) =>
                      /\ Range(r.relatedPacks) = OkEntries(f)
                      /\ Len(r.relatedPacks) = Cardinality(OkEntries(f))
                /\ (Built(l) /\ r.packedAtlasTexture) =>
                      /\ r.builder = "packed"
                      /\ HasRegionOn(l, PrimaryFrame, "packed")
                      /\ Cardinality({p \in 1..Len(r.atlasPages) :
                                         r.atlasPages[p] = "related"})
                             = Cardinality(OkEntries(f))
                      /\ \A k \in OkEntries(f) :
                             HasRegionOn(l, f.related[k].frame, "related")
                /\ r.pc = "returned" =>
                      /\ r.outcome = "ready"
                      /\ \A k \in 1..Len(f.related) :
                             (k \notin OkEntries(f)
                              /\ f.related[k].frame \in Range(RequiredNames)) =>
                                 /\ f.related[k].frame \in RegionNamesOf(l)
                                 /\ HasRegionOn(l, f.related[k].frame, "placeholder")
                                    \/ \E j \in OkEntries(f) :
                                           f.related[j].frame = f.related[k].frame

\* the first linked pack's image does not decode, the second pack loads
C13_Witness ==
    \E l \in 1..Len(loads) :
        /\ FolderOf(l).related =
               <<[kind |-> "imageBad", frame |-> "f1"], [kind |-> "ok", frame |-> "f2"]>>
        /\ loads[l].outcome = "ready"
        /\ loads[l].builder = "packed"
        /\ loads[l].relatedPacks = <<2>>
        /\ HasRegionOn(l, "f1", "placeholder")
        /\ HasRegionOn(l, "f2", "related")

\* the folder of the load holds an image that does not decode, and it is not
\* the image of the selected packed JSON
BadImageNotPrimary(l) ==
    /\ FolderOf(l).looseBad
    /\ PackedImagePath(FolderOf(l), loads[l].packedAtlasPath) # FolderOf(l).images

\* C15: an undecodable image other than the packed primary image (the page
\* image of the .atlas file, a loose image) is treated as absent: the load
\* never fails on it.
C15_BadFileIsAbsent ==
    \A l \in 1..Len(loads) :
        (Classified(l) /\ BadImageNotPrimary(l)) =>
            ~(loads[l].outcome = "failed" /\ loads[l].err = ImageFailedMessage)

\* load l fails in this step
FailsNow(l) ==
    /\ Len(loads') = Len(loads)
    /\ loads[l].outcome = "running"
    /\ loads'[l].outcome = "failed"

\* C16: a failed load has returned with a non-empty reason and called
\* onError at most once.  In the step in which a still-current load fails the
\* error state becomes its message, onError has been called exactly once
\* with it and the loading flag is false; in the step in which a superseded
\* load fails, the error state and the loading flag keep their values and
\* onError is not called.
C16_FailureReported ==
    /\ [](\A l \in 1..Len(loads) :
             loads[l].outcome = "failed" =>
                 /\ loads[l].pc = "returned"
                 /\ loads[l].err # ""
                 /\ Len(loads[l].onErrorCalls) <= 1)
    /\ [][\A l \in 1..Len(loads) :
             FailsNow(l) =>
                 IF Current(l)
                 THEN /\ error' = loads'[l].err
                      /\ ~isLoading'
                      /\ loads'[l].onErrorCalls = <<loads'[l].err>>
                 ELSE /\ error' = error
                      /\ isLoading' = isLoading
                      /\ loads'[l].onErrorCalls = <<>>]_vars

\* a superseded load has failed, silently, while the viewer of another
\* folder is loading
C16_Witness ==
    \E l \in 1..Len(loads) :
        /\ loads[l].outcome = "failed"
        /\ ~Current(l)
        /\ loads[l].onErrorCalls = <<>>
        /\ error = ""
        /\ isLoading

\* the skeleton candidates of a folder, in listing order
RECURSIVE CandidatesFrom(_, _)
CandidatesFrom(f, i) ==
    IF i > Len(f.jsons) THEN <<>>
    ELSE (IF Scanned(f, i) /\ IsSkeletonCandidate(f, i) THEN <<i>> ELSE <<>>)
         \o CandidatesFrom(f, i + 1)

\* C17: the last onLoaded notification of a load that reached Ready carries
\* the skin and animation names of the parsed skeleton, the names of all
\* skeleton candidates of the folder and the name of the selected skeleton
\* file, which is one of those candidates.
C17_FinalNotification ==
    \A l \in 1..Len(loads) :
        loads[l].outcome = "ready" =>
            /\ Len(loads[l].meta) = 1
            /\ loads[l].meta[1].skins = SkeletonSkins
            /\ loads[l].meta[1].animations = SkeletonAnimations
            /\ loads[l].meta[1].skeletonFiles = CandidatesFrom(FolderOf(l), 1)
            /\ loads[l].meta[1].currentSkeletonFile = loads[l].jsonPath
            /\ loads[l].meta[1].currentSkeletonFile
                   \in Range(loads[l].meta[1].skeletonFiles)

\* a load is Ready in a folder with two candidates, where the preferred file
\* is no candidate and the first candidate was selected
C17_Witness ==
    \E l \in 1..Len(loads) :
        /\ loads[l].outcome = "ready"
        /\ Len(CandidatesFrom(FolderOf(l), 1)) = 2
        /\ loads[l].preferred # 0
        /\ loads[l].preferred \notin Range(loads[l].skeletonPaths)
        /\ loads[l].meta[1].currentSkeletonFile = loads[l].skeletonPaths[1]

\* C19: in the atlas handed to the skeleton parser no two regions have the
\* same name, whichever builder made it, linked packs included.
C19_RegionNamesUnique ==
    \A l \in 1..Len(loads) :
        loads[l].outcome = "ready" =>
            \A j, k \in 1..Len(loads[l].atlasRegions) :
                loads[l].atlasRegions[j].name = loads[l].atlasRegions[k].name => j = k

\* the work of building an atlas: image reads and decodes, the builders
BuildingWork == {"readImage", "decode", "decoded", "createApp", "publishApp",
                 "buildAtlas"}

\* every required name is the name of a region of the load's atlas
GapFillComplete(r) ==
    \A n \in Range(RequiredNames) :
        \E k \in 1..Len(r.atlasRegions) : r.atlasRegions[k].name = n

\* C30: a load goes through classification, atlas building, gap-filling,
\* parsing and Ready in this order.  No atlas-building work is done before a
\* skeleton is selected; the step that parses starts where the gap-filler
\* was awaited and parses the gap-filled atlas; a load becomes Ready only in
\* that step and only while current; the loading flag is cleared only by a
\* load that fails or has parsed; a load that is Failed or Superseded, or no
\* longer current, stays so.
C30_PhaseOrder ==
    /\ [](\A l \in 1..Len(loads) :
             /\ loads[l].did \cap BuildingWork # {} => loads[l].jsonPath # 0
             /\ loads[l].outcome = "ready" =>
                    /\ "parse" \in loads[l].did
                    /\ "buildAtlas" \in loads[l].did
                    /\ GapFillComplete(loads[l]))
    /\ [][/\ \A l \in 1..Len(loads) :
               Len(loads') >= Len(loads) =>
                   /\ ("parse" \in loads'[l].did /\ "parse" \notin loads[l].did) =>
                          /\ loads[l].pc = "gapFill"
                          /\ "buildAtlas" \in loads[l].did
                          /\ Current(l)
                          /\ GapFillComplete(loads'[l])
                          /\ loads'[l].outcome = "ready"
                   /\ (loads'[l].outcome = "ready") = ("parse" \in loads'[l].did)
                   /\ loads[l].outcome \in {"failed", "superseded"} =>
                          loads'[l].outcome = loads[l].outcome
                   /\ ~Current(l) => ~Current(l)'
          /\ (isLoading /\ ~isLoading') =>
                 \E l \in 1..Len(loads) :
                     /\ loads[l].outcome = "running"
                     /\ \/ loads'[l].outcome = "failed"
                        \/ loads'[l].outcome = "ready" /\ "parse" \in loads'[l].did]_vars

\* a load is Ready on an atlas that needed placeholders, while an earlier
\* load has ended superseded
C30_Witness ==
    \E l, m \in 1..Len(loads) :
        /\ loads[l].outcome = "ready"
        /\ \E k \in 1..Len(loads[l].atlasPages) : loads[l].atlasPages[k] = "placeholder"
        /\ ~isLoading
        /\ m < l
        /\ loads[m].outcome = "superseded"

\* C31: a .atlas file the atlas parser rejects is not fatal when loose images
\* are present: a load that holds such a file and at least one decoded loose
\* image never ends with the parser's error, and once its application is
\* published it is building on the synthetic atlas
C31_MalformedAtlasNotFatal ==
    \A l \in 1..Len(loads) :
        FolderOf(l).atlas = "bad" /\ loads[l].pixiTextures # {}
        => /\ loads[l].err # AtlasParseMessage
           /\ "publishApp" \in loads[l].did /\ ~loads[l].packedAtlasTexture
              => loads[l].builder = "synthetic"

\* C36: every PIXI Application a load creates is destroyed at most once,
\* whatever the order of the effect cleanup and the load's awaits
C36_DestroyedAtMostOnce ==
    \A l \in 1..Len(loads) : loads[l].destroys <= 1

\* the refs of the hook hold nothing, or what the current load made
RefsAreCurrent ==
    /\ appRef # 0 => Current(appRef) /\ "createApp" \in loads[appRef].did
    /\ spineRef # 0 => Current(spineRef) /\ "parse" \in loads[spineRef].did
    /\ skeletonDataRef # 0 =>
           Current(skeletonDataRef) /\ "parse" \in loads[skeletonDataRef].did
    /\ Cardinality(canvases) <= 1
    /\ canvases \subseteq {appRef}

\* the step is an effect cleanup (followed by the effect's next run)
CleanupStep == viewer' # viewer

\* C35: in every reachable state appRef, spineRef and skeletonDataRef are each
\* null or an object made by the load whose id is the current loadIdRef, and
\* the container holds at most one canvas; after an effect cleanup all three
\* refs are null
C35_RefsBelongToCurrentLoad ==
    /\ []RefsAreCurrent
    /\ [][CleanupStep => appRef' = 0 /\ spineRef' = 0 /\ skeletonDataRef' = 0]_vars

\* the refs hold the current load's objects after an earlier load of the
\* session had its application destroyed by a cleanup
C35_Witness ==
    /\ appRef # 0 /\ spineRef = appRef /\ skeletonDataRef = appRef
    /\ canvases = {appRef}
    /\ \E m \in 1..Len(loads) :
           m # appRef /\ loads[m].app = "destroyed" /\ "publishApp" \in loads[m].did

\* the loads of each hook instance captured different ids
StartedIdsDistinct ==
    \A l, m \in 1..Len(loads) :
        (l # m /\ loads[l].inst = loads[m].inst) => loads[l].myLoadId # loads[m].myLoadId

\* the only frame that can still fire is the one of the effect's latest run
OnlyLatestFramePending ==
    /\ Len(raf) <= 1
    /\ raf # <<>> => raf[1] = viewer.deps

\* a step that starts a load starts the closure of the effect's latest run,
\* which captures the current loadIdRef
StartCapturesCurrentId ==
    Len(loads') > Len(loads)
    => /\ Len(loads') = Len(loads) + 1
       /\ loads'[Len(loads')] = NewLoad(viewer.inst, loadIdRef, viewer.deps)
       /\ loadIdRef' = loadIdRef /\ viewer' = viewer

\* C37: a load whose session the effect cleanup invalidates before its
\* animation frame fires never starts (its frame is cancelled, so it makes
\* no file-system call and publishes nothing); every load that starts
\* captures the current loadIdRef, and no two started loads of one hook
\* instance capture the same id
C37_CancelledLoadNeverStarts ==
    /\ [](StartedIdsDistinct /\ OnlyLatestFramePending)
    /\ [][StartCapturesCurrentId]_vars

\* an effect run of the instance (they take the odd ids) was cleaned up
\* before its frame fired: no load captured its id, and the load of a later
\* run is working
C37_Witness ==
    \E l \in 1..Len(loads) :
        /\ "readFile" \in loads[l].did
        /\ \E id \in 1..loads[l].myLoadId :
               /\ id % 2 = 1 /\ id < loads[l].myLoadId
               /\ \A m \in 1..Len(loads) :
                      loads[m].inst = loads[l].inst => loads[m].myLoadId # id

\* C38: gap-filling is idempotent: a second application with the same
\* skeleton leaves the atlas as the first one made it (no page, no region
\* added), and no application adds a region for a name the atlas already had
C38_GapFillIdempotent ==
    [][/\ (namesPc = "filled" /\ namesPc' = "refilled") => atlas' = atlas
       /\ namesPc' \in {"filled", "refilled"} /\ namesPc' # namesPc =>
              \A k \in (Len(atlas.regions) + 1)..Len(atlas'.regions) :
                  atlas'.regions[k].name \notin RegionNames(atlas)]_vars

\* the second application has run on an atlas where the first one added
\* placeholders beside a built region that bears a required name
C38_Witness ==
    /\ namesPc = "refilled"
    /\ \E p \in 1..Len(atlas.pages) : atlas.pages[p].name = PlaceholderPageName
    /\ \E k \in 1..Len(atlas.regions) :
          /\ atlas.regions[k].width # PlaceholderSize
          /\ atlas.regions[k].name \in Range(collectSkeletonRegionNames(skeleton))

\* nothing is scheduled or waiting, and the last load started has ended
\* Ready or Failed
LoadsSettled ==
    /\ Rendered /\ raf = <<>>
    /\ \A l \in 1..Len(loads) : loads[l].pc = "returned"
    /\ loads # <<>> => loads[Len(loads)].outcome \in {"ready", "failed"}

C32_PendingPathConsumedOnce ==
    /\ \A i, j \in 1..Len(mainLog) :
           (/\ i < j /\ mainLog[i].kind = "get" /\ mainLog[j].kind = "get"
            /\ \A k \in (i + 1)..(j - 1) : mainLog[k].kind # "open-file")
           => mainLog[j].path = 0
    /\ \A i, j, k \in 1..Len(mainLog) :
           (/\ i < j /\ j < k
            /\ mainLog[i].kind = "message"
            /\ mainLog[j].kind = "invoke"
            /\ mainLog[k].kind = "get" /\ mainLog[k].win = mainLog[j].win)
           => mainLog[k].path # mainLog[i].path

\* the paths the operating system delivered through open-file events
EventPaths == 1..MaxEvents

\* C39: each path delivered through one open-file event makes the renderer
\* open it at most once, whatever the order of the event, the creation of
\* the window, the registration of the listener and the getPendingOpenPath
\* call
C39_OpenedAtMostOnce ==
    \A p \in EventPaths :
        Cardinality({i \in 1..Len(mainLog) :
                        mainLog[i].kind = "opened" /\ mainLog[i].path = p}) <= 1

====
